---- MODULE Spec2Model ----
(***************************************************************************)
(* Beam search over a disk-resident graph index (PQFlashIndex):            *)
(* cached_beam_search with its PQ / exact / remote-embedding distance      *)
(* paths, the bounded frontier, the full-retset and the output copy.       *)
(*                                                                         *)
(* Numbers are integers: the index holds vectors of one inherent           *)
(* dimension with coordinates in {-2, 0, 2} and max_base_norm 2, so that   *)
(* every square root and division of the float code is exact on the        *)
(* values the model draws.  The element type T is float.                   *)
(***************************************************************************)
EXTENDS Integers, Sequences, FiniteSets, TLC

(* ---------------------------------------------------------------- bounds *)
NumPoints == 4
MaxK == 2
MaxL == 2
MaxBeam == 2
MaxIoLimit == 2
MaxQueries == 2
MaxBadFetches == 1
AlignedDim == 2
MaxMinL == 2
NumThreads == 2
MaxWarmPoints == 25
MaxToCache == 3
MaxFetches == 2
MaxRangeL == 4

(* ------------------------------------------------------ program constants *)
SECTOR_LEN == 4096
MAX_N_SECTOR_READS == 128
FULL_PRECISION_REORDER_MULTIPLIER == 3
(* std::numeric_limits<uint32_t>::max(), the default io_limit, and                   *)
(* std::numeric_limits<float>::max(): clipped to the integer range of TLC;           *)
(* both exceed every count and every distance of the model                           *)
io_limit_default == 2147483647
FLT_MAX == 2147483647
max_node_len == 4096
MAX_GRAPH_DEGREE == 512
MAX_PQ_CHUNKS == 512

Nodes == 0 .. (NumPoints - 1)
Metrics == {"L2", "COSINE", "INNER_PRODUCT"}
GraphKinds == {"ring", "chord", "back"}

(* labels: FilterLabel is carried by nodes, NoMedoidLabel has no medoid list *)
FilterLabel == "L"
NoMedoidLabel == "M"
UniversalLabel == "U"

(* ------------------------------------------------------------ arithmetic *)
DIV_ROUND_UP(x, y) == (x + y - 1) \div y

AbsVal(x) == IF x < 0 THEN 0 - x ELSE x

RECURSIVE SumSq(_, _)
SumSq(v, n) == IF n = 0 THEN 0 ELSE v[n] * v[n] + SumSq(v, n - 1)

(* std::sqrt on the values of the model: the integer root *)
Sqrt(x) == CHOOSE r \in 0 .. x : r * r <= x /\ (r + 1) * (r + 1) > x

(* x / y of the float code, used where y divides x *)
Quot(x, y) == IF x < 0 THEN 0 - ((0 - x) \div y) ELSE x \div y

(* std::vector::resize(n, fill) *)
Resize(v, n, fill) == [i \in 1 .. n |-> IF i <= Len(v) THEN v[i] ELSE fill]

(* _dist_cmp->compare(a, b, n): squared L2 over the first n coordinates *)
RECURSIVE Compare(_, _, _)
Compare(a, b, n) ==
    IF n = 0 THEN 0 ELSE (a[n] - b[n]) * (a[n] - b[n]) + Compare(a, b, n - 1)

(* ------------------------------------------------------------------ state *)
VARIABLES
    index,            \* what load() built: metric, graph, cache, labels, dummies
    params,           \* the arguments of the running cached_beam_search call
    pc,               \* position of the call
    retset,           \* query_scratch->retset (the bounded frontier)
    visited,          \* query_scratch->visited
    full_retset,      \* query_scratch->full_retset
    node_distances,   \* the per-query id -> distance memo
    num_ios,          \* sector reads issued by the traversal loop
    stats,            \* the QueryStats sink
    frontier_nhoods,  \* nodes of the current beam read from disk, not yet processed
    cached_nhoods,    \* nodes of the current beam served from the cache, not yet processed
    batched_node_ids, \* neighbour ids accumulated in this hop (batch_recompute)
    query_scratch,    \* aligned_query_T, query_norm and the PQ distance table of the call
    out,              \* the caller's indices / distances buffers
    calls,            \* the compute_dists calls of the last step (observation)
    hist,             \* observation of the running call: fetch outcomes, out-of-bounds accesses
    run,              \* number of the running call
    prev,             \* parameters and results of the previous call
    rsearch,          \* range_search: its arguments, locals and result vectors
    thread_data,      \* _thread_data: the scratch objects in the pool, last pushed first
    data,             \* the scratch object the running call has borrowed, 0 for none
    batch,            \* batch_search: its arguments, the rows written, the other worker
    loader,           \* load: the files it is given, its position, what it returned
    warm,             \* cache warmup: its arguments, locals and the node list
    zmq,              \* fetch_embeddings_zmq: the thread's socket, the exchange, the outputs
    sect,             \* the sector reads of one hop and of the reorder pass: requests, buffers
    prune             \* prune_node_nbrs: the lists it is given within one query, what it leaves

vars == <<index, params, pc, retset, visited, full_retset, node_distances, num_ios, stats,
          frontier_nhoods, cached_nhoods, batched_node_ids, query_scratch, out, calls, hist,
          run, prev, rsearch, thread_data, data, batch, loader, warm, zmq, sect, prune>>

(* the callers of cached_beam_search, which no step of a call touches *)
callerVars == <<rsearch, batch, loader, warm, zmq, sect, prune>>

(* load, cache warmup and the embedding client, which no search touches *)
setupVars == <<loader, warm, zmq, sect, prune>>

(* state that only the entry and the exits of a call touch *)
auxVars == <<callerVars, thread_data, data>>

(* ------------------------------------------------------------- index data *)
(* the base vector of a point as the data set (and the embedding service) holds it *)
RawBase(id) == << 2 * ((id % 3) - 1) >>

DataDim(metric) == IF metric = "INNER_PRODUCT" THEN 2 ELSE 1

MaxBaseNorm(metric) == IF metric = "INNER_PRODUCT" THEN 2 ELSE 0

data_dim == DataDim(index.metric)

max_base_norm == MaxBaseNorm(index.metric)

(* what index construction stored for a point: raw for L2, normalised for cosine,   *)
(* divided by max_base_norm with the extra coordinate sqrt(1 - |x|^2/B^2) for MIPS  *)
StoredCoords(metric, x) ==
    IF metric = "INNER_PRODUCT"
    THEN [i \in 1 .. Len(x) |-> Quot(x[i], MaxBaseNorm(metric))]
             \o << Sqrt(1 - Quot(SumSq(x, Len(x)), MaxBaseNorm(metric) * MaxBaseNorm(metric))) >>
    ELSE IF metric = "COSINE" /\ SumSq(x, Len(x)) > 0
    THEN [i \in 1 .. Len(x) |-> Quot(x[i], Sqrt(SumSq(x, Len(x))))]
    ELSE x

(* adjacency list of a node on disk *)
NbrsOf(graph, n, id) ==
    CASE graph = "ring" -> << (id + 1) % n >>
      [] graph = "chord" -> << (id + 1) % n, (id + 2) % n >>
      [] graph = "back" -> << (id + n - 1) % n, (id + 1) % n >>

Nbrs(id) == NbrsOf(index.graph, NumPoints, id)

medoids == << 0 >>

filter_to_medoid_ids == [l \in {FilterLabel} |-> << 0 >>]

(* the last point is a dummy copy of point 1 when the index has dummies *)
dummy_pts == IF index.dummies THEN {NumPoints - 1} ELSE {}

dummy_to_real_map == [d \in dummy_pts |-> 1]

(* the labels of a point: the medoid of FilterLabel and the dummies carry FilterLabel, *)
(* point 2 carries the universal label when the index has one                          *)
pts_to_labels(point_id) ==
    (IF point_id = 0 \/ point_id \in dummy_pts THEN {FilterLabel} ELSE {})
        \cup (IF point_id = 2 /\ index.use_universal_label THEN {UniversalLabel} ELSE {})

point_has_label(point_id, label_id) == label_id \in pts_to_labels(point_id)

(* PQ: one chunk, two centroids; code of a point = nearest centroid of its stored vector *)
PQCentroid(c) == IF c = 0 THEN Resize(<< -1 >>, AlignedDim, 0) ELSE Resize(<< 0 >>, AlignedDim, 0)

PQCode(v) ==
    IF Compare(Resize(v, AlignedDim, 0), PQCentroid(0), AlignedDim)
           <= Compare(Resize(v, AlignedDim, 0), PQCentroid(1), AlignedDim)
    THEN 0 ELSE 1

(* ------------------------------------------------------ query preparation *)
(* the normalisation step of cached_beam_search: cosine and MIPS queries are divided  *)
(* by their norm over the inherent dimensions, a MIPS query gets a 0 last coordinate  *)
inherent_dim == IF index.metric = "COSINE" THEN data_dim ELSE data_dim - 1

NormalizedQuery(query, norm) ==
    IF index.metric \in {"INNER_PRODUCT", "COSINE"}
    THEN [i \in 1 .. AlignedDim |-> IF i <= inherent_dim THEN Quot(query[i], norm) ELSE 0]
    ELSE [i \in 1 .. AlignedDim |-> IF i <= data_dim THEN query[i] ELSE 0]

(* populate_chunk_distances: query <-> centroid distance per code value *)
ChunkDistances(q) == [c \in {0, 1} |-> Compare(q, PQCentroid(c), AlignedDim)]

PreparedQuery(query, norm) ==
    [aligned_query_T |-> NormalizedQuery(query, norm), query_norm |-> norm,
     pq_dists |-> ChunkDistances(NormalizedQuery(query, norm))]

NoQuery == [aligned_query_T |-> << >>, query_norm |-> 0, pq_dists |-> << >>]

aligned_query_T == query_scratch.aligned_query_T

query_norm == query_scratch.query_norm

pq_dists(c) == query_scratch.pq_dists[c]

(* aggregate_coords + pq_dist_lookup over a list of ids *)
pq_dist_lookup(ids) == [i \in 1 .. Len(ids) |-> pq_dists(index.pq_code[ids[i]])]

(* exact distance of the query to a vector held in data_buf (zero beyond its length) *)
ExactDist(v) == Compare(aligned_query_T, Resize(v, AlignedDim, 0), AlignedDim)

(* ----------------------------------------------------- embedding service *)
FetchOutcomes == {"ok", "fail", "short", "long"}

(* fetch_embeddings_http: what a fetch of node_ids yields under an outcome of the     *)
(* exchange: "ok" one embedding per id, "fail" success = false, "short" / "long" a    *)
(* well-formed response (blob size = batch * dim * 4) with batch one less / one more  *)
fetch_embeddings_http(node_ids, oc) ==
    LET n == Len(node_ids)
        all == [i \in 1 .. n |-> RawBase(node_ids[i])]
    IN  CASE oc = "ok" -> [success |-> TRUE, embeddings |-> all]
          [] oc = "fail" -> [success |-> FALSE, embeddings |-> << >>]
          [] oc = "short" -> [success |-> TRUE, embeddings |-> SubSeq(all, 1, n - 1)]
          [] oc = "long" -> [success |-> TRUE, embeddings |-> Append(all, RawBase(0))]

(* embeddings used as they arrive *)
preprocess_none(emb0) == emb0

preprocess_one(emb0) ==
    LET emb == IF Len(emb0) < data_dim - 1 THEN Resize(emb0, data_dim - 1, 0) ELSE emb0
    IN  IF index.metric = "INNER_PRODUCT"
        THEN LET norm_sq == SumSq(emb, data_dim - 1)
                 scaled == [i \in 1 .. Len(emb) |->
                              IF i <= data_dim - 1 THEN Quot(emb[i], max_base_norm) ELSE emb[i]]
                 r == 1 - Quot(norm_sq, max_base_norm * max_base_norm)
                 res == IF r <= 0 THEN 0 ELSE Sqrt(r)
             IN  Resize(scaled, data_dim, res)
        ELSE IF index.metric = "COSINE"
        THEN LET norm == Sqrt(SumSq(emb, Len(emb)))
             IN  IF norm > 0 THEN [i \in 1 .. Len(emb) |-> Quot(emb[i], norm)] ELSE emb
        ELSE emb

preprocess_fetched_embeddings(embeddings) ==
    [i \in 1 .. Len(embeddings) |-> preprocess_one(embeddings[i])]

(* ----------------------------------------------------------- compute_dists *)
RECURSIVE Uncached(_, _)
Uncached(ids, nd) ==
    IF ids = << >> THEN << >>
    ELSE IF Head(ids) \in DOMAIN nd THEN Uncached(Tail(ids), nd)
         ELSE << Head(ids) >> \o Uncached(Tail(ids), nd)

(* key under which the dedup loop stores the distance of position i (1-based): the    *)
(* code indexes node_ids with the position in ids, not with the position in node_ids; *)
(* past the end of node_ids the read is out of bounds and yields gk                   *)
MemoKey(node_ids, i, gk) == IF i <= Len(node_ids) THEN node_ids[i] ELSE gk

RECURSIVE DedupStore(_, _, _, _, _, _, _)
DedupStore(ids, nd0, node_ids, exact, gk, i, nd) ==
    IF i > Len(ids) THEN nd
    ELSE IF ids[i] \in DOMAIN nd0
         THEN DedupStore(ids, nd0, node_ids, exact, gk, i + 1, nd)
         ELSE LET idx == Len(Uncached(SubSeq(ids, 1, i), nd0))
              IN  DedupStore(ids, nd0, node_ids, exact, gk, i + 1,
                             (MemoKey(node_ids, i, gk) :> exact[idx]) @@ nd)

(* a fallback that keeps the distances the first pass took from the memo *)
FallbackKeepCached(ids, first_pass, nd) ==
    [i \in 1 .. Len(ids) |->
        IF params.dedup /\ ids[i] \in DOMAIN nd THEN first_pass[i] ELSE pq_dist_lookup(ids)[i]]

(* result of the PQ fallback of a failed fetch: distances of the call *)
FallbackDists(ids, first_pass, nd) == pq_dist_lookup(ids)

(* compute_dists(ids, n_ids, dists_out): the distances written, the memo afterwards,  *)
(* and what happened (fetched: a fetch was made; failed: it fell back to PQ;          *)
(* oob: node_ids was read past its end)                                               *)
compute_dists(ids, nd, oc, gk) ==
    LET n == Len(ids)
        quiet == [fetched |-> FALSE, failed |-> FALSE, oob |-> FALSE, ids |-> ids]
    IN
    IF ~params.recompute
    THEN [dists |-> pq_dist_lookup(ids), nd |-> nd] @@ quiet
    ELSE
      LET node_ids == IF params.dedup THEN Uncached(ids, nd) ELSE ids
          first_pass == [i \in 1 .. n |->
                           IF params.dedup /\ ids[i] \in DOMAIN nd THEN nd[ids[i]] ELSE 0]
      IN
      IF params.dedup /\ node_ids = << >>
      THEN [dists |-> first_pass, nd |-> nd] @@ quiet
      ELSE
        LET resp == fetch_embeddings_http(node_ids, oc)
            did == [fetched |-> TRUE, failed |-> FALSE, oob |-> FALSE, ids |-> ids]
        IN
        IF ~resp.success \/ Len(resp.embeddings) # Len(node_ids)
        THEN [dists |-> FallbackDists(ids, first_pass, nd), nd |-> nd]
                 @@ [did EXCEPT !.failed = TRUE]
        ELSE
          LET embs == preprocess_fetched_embeddings(resp.embeddings)
              exact == [j \in 1 .. Len(embs) |-> ExactDist(embs[j])]
          IN
          IF params.dedup
          THEN [dists |-> [i \in 1 .. n |->
                             IF ids[i] \in DOMAIN nd THEN first_pass[i]
                             ELSE exact[Len(Uncached(SubSeq(ids, 1, i), nd))]],
                nd |-> DedupStore(ids, nd, node_ids, exact, gk, 1, nd)]
                 @@ [did EXCEPT !.oob =
                       \E i \in 1 .. n : ids[i] \notin DOMAIN nd /\ i > Len(node_ids)]
          ELSE [dists |-> exact, nd |-> nd] @@ did

(* ------------------------------------------ NeighborPriorityQueue (retset) *)
Neighbor(id, distance) == [id |-> id, distance |-> distance, expanded |-> FALSE]

(* Neighbor::operator< : ascending distance, lower id first on equal distance *)
Less(a, b) == a.distance < b.distance \/ (a.distance = b.distance /\ a.id < b.id)

has_unexpanded_node(rs) == \E i \in 1 .. Len(rs) : ~rs[i].expanded

(* insert keeps the queue sorted and drops the worst entry when over capacity; a    *)
(* queue of capacity 0 stays empty                                                  *)
retset_insert(rs, nbr, capacity) ==
    IF capacity = 0 THEN rs
    ELSE IF Len(rs) = capacity /\ Less(rs[Len(rs)], nbr) THEN rs
    ELSE IF \E i \in 1 .. Len(rs) : rs[i].id = nbr.id /\ rs[i].distance = nbr.distance THEN rs
    ELSE LET lo == Cardinality({i \in 1 .. Len(rs) : ~Less(nbr, rs[i])})
             grown == SubSeq(rs, 1, lo) \o << nbr >> \o SubSeq(rs, lo + 1, Len(rs))
         IN  SubSeq(grown, 1, IF Len(grown) > capacity THEN capacity ELSE Len(grown))

(* index of the closest unexpanded entry *)
closest_unexpanded(rs) == CHOOSE i \in 1 .. Len(rs) :
    ~rs[i].expanded /\ \A j \in 1 .. (i - 1) : rs[j].expanded

(* full_retset left in expansion order *)
NoSort(s) == s

(* std::sort(full_retset.begin(), full_retset.end()) *)
RECURSIVE SortNeighbors(_)
SortNeighbors(s) ==
    IF s = << >> THEN << >>
    ELSE LET rest == SortNeighbors(Tail(s))
             lo == Cardinality({i \in 1 .. Len(rest) : Less(rest[i], Head(s))})
         IN  SubSeq(rest, 1, lo) \o << Head(s) >> \o SubSeq(rest, lo + 1, Len(rest))

(* --------------------------------------------------------- neighbour steps *)
(* a neighbour loop that does not consult visited *)
InsertVisitedAlways(id, vis) == TRUE

(* an insertion that leaves the visited set as it was *)
VisitedUntouched(id, vis) == vis

(* the visited set after visited.insert(id) *)
VisitedAfter(id, vis) == vis \cup {id}

(* visited.insert(id).second *)
InsertVisited(id, vis) == id \notin vis

(* every newly visited neighbour enters the frontier *)
AdmitAll(id) == TRUE

(* the label / dummy test that lets a newly visited neighbour into the frontier *)
Admitted(id) ==
    /\ ~(~params.use_filter /\ id \in dummy_pts)
    /\ ~(/\ params.use_filter
         /\ ~point_has_label(id, params.filter_label)
         /\ (~index.use_universal_label \/ ~point_has_label(id, UniversalLabel)))

(* the "process prefetched nhood" loop over the ids of one compute_dists call *)
RECURSIVE ProcessNhood(_, _, _, _, _)
ProcessNhood(ids, dists, m, rs, vis) ==
    IF m > Len(ids) THEN [retset |-> rs, visited |-> vis]
    ELSE LET id == ids[m]
         IN  IF ~InsertVisited(id, vis) THEN ProcessNhood(ids, dists, m + 1, rs, vis)
             ELSE IF ~Admitted(id)
             THEN ProcessNhood(ids, dists, m + 1, rs, VisitedAfter(id, vis))
             ELSE ProcessNhood(ids, dists, m + 1,
                               retset_insert(rs, Neighbor(id, dists[m]), params.l_search),
                               VisitedAfter(id, vis))

(* the std::sort of prune_node_nbrs: ids in ascending order of their distance; ids of  *)
(* equal distance keep their order here, the code leaves their order open              *)
RECURSIVE SortByDist(_, _)
SortByDist(ids, dist) ==
    IF ids = << >> THEN << >>
    ELSE LET rest == SortByDist(Tail(ids), dist)
             d == dist[Head(ids)]
             lo == Cardinality({i \in 1 .. Len(rest) : dist[rest[i]] <= d})
         IN  SubSeq(rest, 1, lo) \o << Head(ids) >> \o SubSeq(rest, lo + 1, Len(rest))

SortByPQ(ids) == SortByDist(ids, [id \in Nodes |-> pq_dists(index.pq_code[id])])

(* prune_node_nbrs, local pruning: the max(10, n * (1 - prune_ratio)) ids of smallest  *)
(* PQ distance; keep_pct is the 1 - prune_ratio of the call in hundredths              *)
LocalPrune(ids, dist, keep_pct) ==
    LET keep == (Len(ids) * keep_pct) \div 100
        new_nnbrs == IF keep > 10 THEN keep ELSE 10
    IN  IF new_nnbrs < Len(ids)
        THEN SubSeq(SortByDist(ids, dist), 1, new_nnbrs)
        ELSE ids

(* prune_node_nbrs, global pruning: the list goes into the priority queue of the       *)
(* query, and the list is overwritten with the unvisited ids among the best            *)
(* prune_ratio * size entries of the whole queue, which stay in the queue              *)
GlobalPrune(ids, dist, aq, vis, keep_pct) ==
    LET pushed == SortNeighbors(aq \o [i \in 1 .. Len(ids) |-> Neighbor(ids[i], dist[ids[i]])])
        tops == (keep_pct * Len(pushed) + 99) \div 100
        promising == SelectSeq(SubSeq(pushed, 1, tops), LAMBDA e : e.id \notin vis)
    IN  [left |-> [i \in 1 .. Len(promising) |-> promising[i].id], aq |-> pushed]

(* prune_node_nbrs(node_nbrs, nnbrs): the list it leaves and the priority queue *)
PruneCall(ids, dist, aq, vis, recompute, global_pruning, keep_pct) ==
    IF ~recompute \/ Len(ids) <= 10 THEN [left |-> ids, aq |-> aq]
    ELSE IF global_pruning THEN GlobalPrune(ids, dist, aq, vis, keep_pct)
    ELSE [left |-> LocalPrune(ids, dist, keep_pct), aq |-> aq]

(* the pruning of a search call: global_pruning off *)
prune_node_nbrs(ids) ==
    PruneCall(ids, [id \in Nodes |-> pq_dists(index.pq_code[id])], << >>, visited,
              params.recompute, FALSE, 100 - params.prune_pct).left

(* observation record of a compute_dists call *)
CallLog(r) == [ids |-> r.ids, dists |-> r.dists, fetched |-> r.fetched,
               failed |-> r.failed, oob |-> r.oob]

NoteCalls(h, rs) ==
    [h EXCEPT !.bad = @ + Cardinality({i \in 1 .. Len(rs) : rs[i].fetched /\ rs[i].failed}),
              !.oob = @ \/ \E i \in 1 .. Len(rs) : rs[i].oob]

(* ------------------------------------------------------------------ inputs *)
Queries == { << 2 >>, << 0 - 2 >> }

TooWide == DIV_ROUND_UP(max_node_len, SECTOR_LEN) * MAX_N_SECTOR_READS + 1

Unwritten == 0 - 1

EmptyMemo == [x \in {} |-> 0]

NoStats == [n_ios |-> 0, n_hops |-> 0, n_cache_hits |-> 0]

NoHist == [bad |-> 0, oob |-> FALSE]

FreshOut(k) == [indices |-> [i \in 1 .. k |-> Unwritten],
                distances |-> [i \in 1 .. k |-> Unwritten], written |-> FALSE]

Args(q, k, l, bw, io, uf, fl, rd, df, sk, rc, dd, bt) ==
    [query |-> q, k_search |-> k, l_search |-> l, beam_width |-> bw, io_limit |-> io,
     use_filter |-> uf, filter_label |-> fl, use_reorder_data |-> rd, deferred |-> df,
     skip_search_reorder |-> sk, recompute |-> rc, dedup |-> dd, batch_recompute |-> bt,
     prune_pct |-> 0]

Index(m, g, c, d, u, r) ==
    [metric |-> m, graph |-> g, cached |-> c, dummies |-> d, use_universal_label |-> u,
     reorder_data_exists |-> r, use_partition |-> FALSE,
     coords |-> [id \in Nodes |-> StoredCoords(m, RawBase(id))],
     pq_code |-> [id \in Nodes |-> PQCode(StoredCoords(m, RawBase(id)))]]

(* traversal: graphs, cache, beam widths and I/O budgets, PQ distances only *)
TraversalInputs ==
    { << Index("L2", g, c, FALSE, FALSE, FALSE),
         Args(<< 2 >>, 1, l, bw, io, FALSE, FilterLabel, FALSE, FALSE, FALSE, FALSE, FALSE, bt) >> :
        g \in GraphKinds, c \in {{}, {0, 2}}, l \in 1 .. MaxL,
        bw \in (0 .. MaxBeam) \cup {TooWide},
        io \in (0 .. MaxIoLimit) \cup {io_limit_default}, bt \in BOOLEAN }

(* filter / dummy / reorder set-ups of an index and a call:                          *)
(* <<dummies, use_universal_label, reorder_data_exists, use_filter, filter_label,    *)
(*   use_reorder_data>>                                                               *)
ResultSetups ==
    { << FALSE, FALSE, FALSE, FALSE, FilterLabel, FALSE >>,
      << TRUE, FALSE, FALSE, FALSE, FilterLabel, FALSE >>,
      << FALSE, FALSE, FALSE, TRUE, FilterLabel, FALSE >>,
      << TRUE, TRUE, FALSE, TRUE, FilterLabel, FALSE >>,
      << FALSE, FALSE, FALSE, TRUE, NoMedoidLabel, FALSE >>,
      << FALSE, FALSE, TRUE, FALSE, FilterLabel, TRUE >>,
      << FALSE, FALSE, FALSE, FALSE, FilterLabel, TRUE >> }

(* results: metrics, filters, dummies, reorder data *)
ResultInputs ==
    { << Index(m, "back", {}, f[1], f[2], f[3]),
         Args(q, k, l, 1, io, f[4], f[5], f[6], FALSE, FALSE, FALSE, FALSE, FALSE) >> :
        m \in Metrics, f \in ResultSetups, q \in Queries,
        k \in 1 .. MaxK, l \in 1 .. MaxL, io \in {1, io_limit_default} }

(* remote embeddings: recompute, dedup, deferred fetch, skip_search_reorder *)
RemoteInputs ==
    { << Index(m, "chord", c, FALSE, FALSE, FALSE),
         Args(<< 1 >>, kl, kl, 1, io_limit_default, FALSE, FilterLabel, FALSE,
              df, sk, rc, dd, bt) >> :
        m \in Metrics, c \in {{}, {0, 2}}, kl \in {1, MaxK}, df \in BOOLEAN, sk \in BOOLEAN,
        rc \in BOOLEAN, dd \in BOOLEAN, bt \in BOOLEAN }

(* partition mode: the graph in a file of its own, no coordinates on disk, distances   *)
(* from the embedding service with the memo on                                         *)
PartitionInputs ==
    { << [Index("L2", "chord", {}, FALSE, FALSE, FALSE) EXCEPT !.use_partition = TRUE],
         Args(<< 1 >>, kl, kl, 1, io_limit_default, FALSE, FilterLabel, FALSE,
              FALSE, FALSE, TRUE, TRUE, bt) >> :
        kl \in {1, MaxK}, bt \in BOOLEAN }

(* calls that are rejected although they ask for remote embeddings *)
RejectedInputs ==
    { << Index("L2", "chord", {}, FALSE, FALSE, FALSE),
         Args(<< 1 >>, 1, 1, bw, io_limit_default, uf, NoMedoidLabel, FALSE, FALSE, FALSE,
              TRUE, FALSE, FALSE) >> :
        bw \in {1, TooWide}, uf \in BOOLEAN }

Inputs ==
    { x \in TraversalInputs \cup ResultInputs \cup RemoteInputs \cup RejectedInputs
             \cup PartitionInputs :
        /\ x[2].l_search >= x[2].k_search
        /\ (x[2].dedup => x[2].recompute) }

InitFrom(inputs) ==
    /\ \E x \in inputs : index = x[1] /\ params = x[2]
    /\ pc = "idle"
    /\ retset = << >>
    /\ visited = {}
    /\ full_retset = << >>
    /\ node_distances = EmptyMemo
    /\ num_ios = 0
    /\ stats = NoStats
    /\ frontier_nhoods = << >>
    /\ cached_nhoods = << >>
    /\ batched_node_ids = << >>
    /\ query_scratch = NoQuery
    /\ out = FreshOut(params.k_search)
    /\ calls = << >>
    /\ hist = NoHist
    /\ run = 1
    /\ prev = [valid |-> FALSE]

(* one scratch object pushed nthreads times *)
setup_shared_data(nthreads) == [i \in 1 .. nthreads |-> 1]

(* setup_thread_data: one scratch object per thread, pushed to the pool *)
setup_thread_data(nthreads) == [i \in 1 .. nthreads |-> i]

(* ScratchStoreManager: its constructor pops a scratch object and waits while the    *)
(* pool is empty                                                                     *)
BorrowScratch ==
    /\ thread_data # << >>
    /\ data' = Head(thread_data)
    /\ thread_data' = Tail(thread_data)

(* ScratchStoreManager: its destructor pushes the scratch object back *)
ReturnScratch ==
    /\ thread_data' = << data >> \o thread_data
    /\ data' = 0

(* an exit that runs no destructor *)
LeakScratch ==
    /\ thread_data' = thread_data
    /\ data' = 0

(* the manager is a local of cached_beam_search: an exception thrown below its       *)
(* declaration unwinds through it, a return below it leaves its scope                *)
ExitByThrow == ReturnScratch

ExitByReturn == ReturnScratch

(* no range_search is running *)
NoRange == [pc |-> "none"]

(* no batch_search is running *)
NoBatch == [pc |-> "none"]

(* the sector reads and the pruning lambda are not looked at on their own *)
LayoutIdle ==
    /\ sect = [pc |-> "none"]
    /\ prune = [pc |-> "none"]

(* no load, no warmup and no fetch_embeddings_zmq is running *)
SetupIdle ==
    /\ loader = [pc |-> "none"]
    /\ warm = [pc |-> "none"]
    /\ zmq = [pc |-> "none"]
    /\ LayoutIdle

AuxIdle ==
    /\ rsearch = NoRange
    /\ batch = NoBatch
    /\ SetupIdle
    /\ thread_data = setup_thread_data(NumThreads)
    /\ data = 0

Init == InitFrom(Inputs) /\ AuxIdle

(* ----------------------------------------------------------------- actions *)
(* selection of the start medoid of a filtered search: one compute_dists call per    *)
(* registered medoid, the first strictly smaller distance wins                        *)
RECURSIVE SelectFilterMedoid(_, _, _, _, _, _, _)
CompareMedoid(ms, i, best, best_dist, oc, log, r) ==
    IF r.dists[1] < best_dist
    THEN SelectFilterMedoid(ms, i + 1, ms[i], r.dists[1], r.nd, oc, Append(log, r))
    ELSE SelectFilterMedoid(ms, i + 1, best, best_dist, r.nd, oc, Append(log, r))

SelectFilterMedoid(ms, i, best, best_dist, nd, oc, log) ==
    IF i > Len(ms) THEN [best |-> best, nd |-> nd, log |-> log]
    ELSE CompareMedoid(ms, i, best, best_dist, oc, log, compute_dists(<< ms[i] >>, nd, oc, 0))

(* selection of the start medoid of an unfiltered search: exact distance to the      *)
(* centroid of every medoid                                                           *)
RECURSIVE SelectMedoid(_, _, _)
SelectMedoid(i, best, best_dist) ==
    IF i > Len(medoids) THEN best
    ELSE LET d == ExactDist(index.coords[medoids[i]])
         IN  IF d < best_dist THEN SelectMedoid(i + 1, medoids[i], d)
             ELSE SelectMedoid(i + 1, best, best_dist)

(* a call that checks no beam width *)
AnyBeamWidth(bw) == TRUE

BeamWidthAccepted(bw) == ~(bw > DIV_ROUND_UP(max_node_len, SECTOR_LEN) * MAX_N_SECTOR_READS)

(* outcomes other than "ok" are drawn for calls that fetch, while the number of bad  *)
(* fetches of the running call is below MaxBadFetches                                *)
MayFail(oc) == oc = "ok" \/ ((params.recompute \/ params.deferred) /\ hist.bad < MaxBadFetches)

WithinBudget(log, h) ==
    /\ \A i \in 1 .. Len(log) : log[i].fetched \/ log[i].oc = "ok"
    /\ h.bad <= MaxBadFetches

(* cached_beam_search up to the medoid selection: the beam-width check, the borrowed *)
(* scratch and its reset, the query normalisation and the PQ distance table          *)
Prepare ==
    /\ pc = "idle"
    /\ calls' = << >>
    /\ UNCHANGED <<callerVars, index, params, out, run, prev, num_ios, stats, node_distances,
                   hist, frontier_nhoods, cached_nhoods, batched_node_ids>>
    /\ IF ~BeamWidthAccepted(params.beam_width)
       THEN /\ pc' = "error"
            /\ UNCHANGED <<retset, visited, full_retset, query_scratch, thread_data, data>>
       ELSE /\ pc' = "seed"
            /\ BorrowScratch
            /\ retset' = << >>
            /\ visited' = {}
            /\ full_retset' = << >>
            /\ query_scratch' = PreparedQuery(params.query,
                   IF index.metric \in {"INNER_PRODUCT", "COSINE"}
                   THEN Sqrt(SumSq(params.query, inherent_dim)) ELSE 0)

(* medoid selection and the seeding of the frontier *)
Seed ==
    /\ pc = "seed"
    /\ UNCHANGED <<callerVars, index, params, out, run, prev, num_ios, stats, query_scratch,
                   frontier_nhoods, cached_nhoods, batched_node_ids, full_retset>>
    /\ IF params.use_filter /\ params.filter_label \notin DOMAIN filter_to_medoid_ids
       THEN /\ pc' = "error"
            /\ ExitByThrow
            /\ calls' = << >>
            /\ UNCHANGED <<retset, visited, node_distances, hist>>
       ELSE \E oc1, oc2 \in FetchOutcomes :
            LET sel == IF params.use_filter
                       THEN SelectFilterMedoid(filter_to_medoid_ids[params.filter_label], 1,
                                               0, FLT_MAX, EmptyMemo, oc1, << >>)
                       ELSE [best |-> SelectMedoid(1, 0, FLT_MAX), nd |-> EmptyMemo,
                             log |-> << >>]
                 r == compute_dists(<< sel.best >>, sel.nd, oc2, 0)
                 log == [i \in 1 .. Len(sel.log) |-> sel.log[i] @@ [oc |-> oc1]]
                            \o << r @@ [oc |-> oc2] >>
                 h == NoteCalls(hist, log)
            IN  /\ (params.use_filter \/ oc1 = "ok")
                /\ MayFail(oc1) /\ MayFail(oc2)
                /\ WithinBudget(log, h)
                /\ pc' = "loop"
                /\ UNCHANGED <<thread_data, data>>
                /\ retset' = retset_insert(<< >>, Neighbor(sel.best, r.dists[1]),
                                           params.l_search)
                /\ visited' = VisitedAfter(sel.best, {})
                /\ node_distances' = r.nd
                /\ calls' = [i \in 1 .. Len(log) |-> CallLog(log[i])]
                /\ hist' = h

(* "find new beam": pops of closest_unexpanded, split into cached and to-be-read *)
RECURSIVE FindBeam(_, _, _, _)
FindBeam(rs, frontier, cached, num_seen) ==
    IF has_unexpanded_node(rs) /\ Len(frontier) < params.beam_width
                               /\ num_seen < params.beam_width
    THEN LET i == closest_unexpanded(rs)
             rs2 == [rs EXCEPT ![i].expanded = TRUE]
         IN  IF rs[i].id \in index.cached
             THEN FindBeam(rs2, frontier, Append(cached, rs[i].id), num_seen + 1)
             ELSE FindBeam(rs2, Append(frontier, rs[i].id), cached, num_seen + 1)
    ELSE [retset |-> rs, frontier |-> frontier, cached |-> cached]

(* a loop test without the I/O budget *)
LoopConditionNoLimit == has_unexpanded_node(retset)

LoopCondition == has_unexpanded_node(retset) /\ num_ios < params.io_limit

(* head of one iteration of the traversal loop: the loop test, the beam, the reads *)
SelectBeam ==
    /\ pc = "loop"
    /\ calls' = << >>
    /\ UNCHANGED <<auxVars, index, params, visited, full_retset, node_distances, query_scratch, out,
                   hist, run, prev>>
    /\ IF LoopCondition
       THEN LET b == FindBeam(retset, << >>, << >>, 0)
            IN  /\ pc' = "hop"
                /\ retset' = b.retset
                /\ frontier_nhoods' = b.frontier
                /\ cached_nhoods' = b.cached
                /\ batched_node_ids' = << >>
                /\ num_ios' = num_ios + Len(b.frontier)
                /\ stats' = [stats EXCEPT
                               !.n_ios = @ + Len(b.frontier),
                               !.n_hops = @ + (IF b.frontier # << >> THEN 1 ELSE 0),
                               !.n_cache_hits = @ + Len(b.cached)]
       ELSE /\ pc' = "post"
            /\ UNCHANGED <<retset, frontier_nhoods, cached_nhoods, batched_node_ids,
                           num_ios, stats>>

(* distance pushed to full_retset for an expanded node whose coordinates are v *)
ExpandedDist(node_id, v, r1) ==
    IF params.skip_search_reorder THEN r1.dists[1]
    ELSE IF params.deferred THEN 0
    ELSE ExactDist(v)

(* the branch that takes the distance of a node read from disk out of the memo *)
ReadsMemo ==
    /\ ~params.skip_search_reorder
    /\ ~params.deferred
    /\ params.recompute /\ params.dedup /\ index.use_partition

(* node_distances[node_id]: the entry, or 0 for an id the memo does not hold *)
MemoValue(nd, node_id) == IF node_id \in DOMAIN nd THEN nd[node_id] ELSE 0

(* operator[] leaves a zero entry for an id the memo did not hold *)
MemoAfterRead(nd, node_id) ==
    IF node_id \in DOMAIN nd THEN nd ELSE (node_id :> 0) @@ nd

NoCall == [dists |-> << >>, nd |-> node_distances, fetched |-> FALSE, failed |-> FALSE,
           oob |-> FALSE, ids |-> << >>]

GarbageKeys == 0 .. NumPoints

(* one node of the beam served from the node cache *)
ProcessCached ==
    /\ pc = "hop"
    /\ cached_nhoods # << >>
    /\ UNCHANGED <<auxVars, index, params, pc, num_ios, stats, frontier_nhoods, batched_node_ids,
                   query_scratch, out, run, prev>>
    /\ \E oc1, oc2 \in FetchOutcomes, gk \in GarbageKeys :
         LET node_id == Head(cached_nhoods)
             r1 == IF params.skip_search_reorder
                   THEN compute_dists(<< node_id >>, node_distances, oc1, 0)
                   ELSE NoCall
             r2 == compute_dists(Nbrs(node_id), r1.nd, oc2, gk)
             log == (IF params.skip_search_reorder THEN << r1 @@ [oc |-> oc1] >> ELSE << >>)
                        \o << r2 @@ [oc |-> oc2] >>
             h == NoteCalls(hist, log)
             p == ProcessNhood(Nbrs(node_id), r2.dists, 1, retset, visited)
         IN  /\ (params.skip_search_reorder \/ oc1 = "ok")
             /\ MayFail(oc1) /\ MayFail(oc2)
             /\ (params.dedup \/ gk = 0)
             /\ (r2.oob \/ gk = 0)
             /\ WithinBudget(log, h)
             /\ cached_nhoods' = Tail(cached_nhoods)
             /\ full_retset' = Append(full_retset,
                    Neighbor(node_id, ExpandedDist(node_id, index.coords[node_id], r1)))
             /\ retset' = p.retset
             /\ visited' = p.visited
             /\ node_distances' = r2.nd
             /\ calls' = [i \in 1 .. Len(log) |-> CallLog(log[i])]
             /\ hist' = h

(* one node of the beam read from disk *)
ProcessDisk ==
    /\ pc = "hop"
    /\ cached_nhoods = << >>
    /\ frontier_nhoods # << >>
    /\ UNCHANGED <<auxVars, index, params, pc, num_ios, stats, cached_nhoods, query_scratch, out,
                   run, prev>>
    /\ \E oc1, oc2 \in FetchOutcomes, gk \in GarbageKeys :
         LET node_id == Head(frontier_nhoods)
             r1 == IF params.skip_search_reorder
                   THEN compute_dists(<< node_id >>, node_distances, oc1, 0)
                   ELSE NoCall
             nd1 == IF ReadsMemo THEN MemoAfterRead(r1.nd, node_id) ELSE r1.nd
             nbrs == IF params.batch_recompute THEN Nbrs(node_id)
                     ELSE prune_node_nbrs(Nbrs(node_id))
             r2 == IF params.batch_recompute THEN [NoCall EXCEPT !.nd = nd1]
                   ELSE compute_dists(nbrs, nd1, oc2, gk)
             log == (IF params.skip_search_reorder THEN << r1 @@ [oc |-> oc1] >> ELSE << >>)
                        \o (IF params.batch_recompute THEN << >> ELSE << r2 @@ [oc |-> oc2] >>)
             h == NoteCalls(hist, log)
             p == IF params.batch_recompute THEN [retset |-> retset, visited |-> visited]
                  ELSE ProcessNhood(nbrs, r2.dists, 1, retset, visited)
         IN  /\ (params.skip_search_reorder \/ oc1 = "ok")
             /\ (~params.batch_recompute \/ oc2 = "ok")
             /\ MayFail(oc1) /\ MayFail(oc2)
             /\ (params.dedup \/ gk = 0)
             /\ (r2.oob \/ gk = 0)
             /\ WithinBudget(log, h)
             /\ frontier_nhoods' = Tail(frontier_nhoods)
             /\ full_retset' = Append(full_retset,
                    Neighbor(node_id,
                             IF ReadsMemo THEN MemoValue(r1.nd, node_id)
                             ELSE ExpandedDist(node_id, index.coords[node_id], r1)))
             /\ batched_node_ids' = IF params.batch_recompute
                                    THEN batched_node_ids \o nbrs ELSE batched_node_ids
             /\ retset' = p.retset
             /\ visited' = p.visited
             /\ node_distances' = r2.nd
             /\ calls' = [i \in 1 .. Len(log) |-> CallLog(log[i])]
             /\ hist' = h

(* end of one iteration: the batched neighbour distances of the hop, then the loop test *)
EndHop ==
    /\ pc = "hop"
    /\ cached_nhoods = << >>
    /\ frontier_nhoods = << >>
    /\ pc' = "loop"
    /\ UNCHANGED <<auxVars, index, params, full_retset, num_ios, stats, frontier_nhoods,
                   cached_nhoods, query_scratch, out, run, prev>>
    /\ IF params.batch_recompute
       THEN \E oc \in FetchOutcomes, gk \in GarbageKeys :
              LET ids == prune_node_nbrs(batched_node_ids)
                  r == compute_dists(ids, node_distances, oc, gk)
                  log == << r @@ [oc |-> oc] >>
                  h == NoteCalls(hist, log)
                  p == ProcessNhood(ids, r.dists, 1, retset, visited)
              IN  /\ MayFail(oc)
                  /\ (params.dedup \/ gk = 0)
                  /\ (r.oob \/ gk = 0)
                  /\ WithinBudget(log, h)
                  /\ batched_node_ids' = ids
                  /\ retset' = p.retset
                  /\ visited' = p.visited
                  /\ node_distances' = r.nd
                  /\ calls' = [i \in 1 .. Len(log) |-> CallLog(log[i])]
                  /\ hist' = h
       ELSE /\ calls' = << >>
            /\ UNCHANGED <<batched_node_ids, retset, visited, node_distances, hist>>

(* what a read of full_retset past its size can yield: the vector's spare capacity   *)
(* holds entries of earlier queries                                                   *)
StaleDistances == {0, 1}

StaleNeighbors == {Neighbor(id, d) : id \in Nodes, d \in StaleDistances}

(* the deferred fetch: full_retset[i].distance of the first |response| entries *)
DeferredDistances(fr, embs) ==
    [i \in 1 .. Len(fr) |->
        IF i <= Len(embs) THEN [fr[i] EXCEPT !.distance = ExactDist(embs[i])] ELSE fr[i]]

(* the reorder pass: truncate, recompute from the full-precision vectors, sort again *)
Reorder(fr) ==
    LET cap == params.k_search * FULL_PRECISION_REORDER_MULTIPLIER
        cut == IF Len(fr) > cap THEN SubSeq(fr, 1, cap) ELSE fr
    IN  SortNeighbors([i \in 1 .. Len(cut) |->
            [cut[i] EXCEPT !.distance = Compare(aligned_query_T,
                                                Resize(index.coords[cut[i].id], AlignedDim, 0),
                                                data_dim)]])

(* indices[i] after the dummy remap *)
OutputId(id) == IF id \in dummy_pts THEN dummy_to_real_map[id] ELSE id

(* distances[i]: negated, and rescaled when max_base_norm is not 0, for inner product *)
OutputDistance(d) ==
    IF index.metric = "INNER_PRODUCT"
    THEN IF max_base_norm # 0 THEN (0 - d) * (max_base_norm * query_norm) ELSE 0 - d
    ELSE d

(* "copy k_search values": position i reads full_retset[i] whether or not it exists *)
CopyOut(fr, stale) ==
    LET at(i) == IF i <= Len(fr) THEN fr[i] ELSE stale[i]
    IN  [indices |-> [i \in 1 .. params.k_search |-> OutputId(at(i).id)],
         distances |-> [i \in 1 .. params.k_search |-> OutputDistance(at(i).distance)],
         written |-> TRUE]

(* the caller's buffers after the post-processing. OutputBuffersFirst is the copy    *)
(* loop placed ahead of the reorder block; in the function it is the last block,     *)
(* behind the throw for absent reorder data                                           *)
OutputBuffersFirst(thrown, o, fr, stale) == CopyOut(fr, stale)

OutputBuffers(thrown, o, fr, stale) == IF thrown THEN o ELSE CopyOut(fr, stale)

(* after the traversal loop: deferred fetch, sort, reorder, output *)
Finish ==
    /\ pc = "post"
    /\ calls' = << >>
    /\ UNCHANGED <<callerVars, index, params, retset, visited, node_distances, num_ios,
                   query_scratch, frontier_nhoods, cached_nhoods, batched_node_ids, run, prev>>
    /\ IF params.deferred /\ full_retset = << >>
       THEN /\ pc' = "done"
            /\ ExitByReturn
            /\ UNCHANGED <<full_retset, out, stats, hist>>
       ELSE \E oc \in FetchOutcomes :
         LET node_ids == [i \in 1 .. Len(full_retset) |-> full_retset[i].id]
             resp == fetch_embeddings_http(node_ids, oc)
             embs == preprocess_fetched_embeddings(resp.embeddings)
             fr1 == IF params.deferred THEN DeferredDistances(full_retset, embs)
                    ELSE full_retset
             fr2 == SortNeighbors(fr1)
             fr3 == IF params.use_reorder_data THEN Reorder(fr2) ELSE fr2
             h == [hist EXCEPT
                     !.bad = @ + (IF params.deferred /\ oc # "ok" THEN 1 ELSE 0),
                     !.oob = @ \/ (params.deferred /\ resp.success
                                      /\ Len(embs) > Len(full_retset))]
         IN  /\ (params.deferred \/ oc = "ok")
             /\ MayFail(oc)
             /\ IF params.deferred /\ ~resp.success
                THEN /\ pc' = "error"
                     /\ ExitByThrow
                     /\ hist' = h
                     /\ UNCHANGED <<full_retset, out, stats>>
                ELSE IF params.use_reorder_data /\ ~index.reorder_data_exists
                THEN /\ pc' = "error"
                     /\ ExitByThrow
                     /\ full_retset' = fr2
                     /\ hist' = h
                     /\ UNCHANGED stats
                     /\ \E stale \in [(Len(fr2) + 1) .. params.k_search -> StaleNeighbors] :
                          out' = OutputBuffers(TRUE, out, fr2, stale)
                ELSE /\ pc' = "done"
                     /\ ExitByReturn
                     /\ full_retset' = fr3
                     /\ hist' = [h EXCEPT !.oob = @ \/ Len(fr3) < params.k_search]
                     /\ stats' = [stats EXCEPT !.n_ios =
                                    @ + (IF params.use_reorder_data THEN Len(fr3) ELSE 0)]
                     /\ \E stale \in [(Len(fr3) + 1) .. params.k_search -> StaleNeighbors] :
                          out' = OutputBuffers(FALSE, out, fr3, stale)

(* the next call on the same index with the same thread's scratch: the same query    *)
(* with dedup_node_dis turned on, or with the deferred fetch replaced by neighbour   *)
(* recomputation                                                                      *)
Variants(p) ==
    {[p EXCEPT !.dedup = TRUE] : x \in {q \in {p} : q.recompute /\ ~q.dedup}}
        \cup {[p EXCEPT !.deferred = FALSE, !.recompute = TRUE] : x \in {q \in {p} : q.deferred}}

NextQuery ==
    /\ pc = "done"
    /\ run < MaxQueries
    /\ \E p \in Variants(params) : params' = p
    /\ prev' = [valid |-> TRUE, params |-> params, out |-> out, hist |-> hist,
                full_retset |-> full_retset]
    /\ run' = run + 1
    /\ pc' = "idle"
    /\ retset' = << >>
    /\ visited' = {}
    /\ full_retset' = << >>
    /\ node_distances' = EmptyMemo
    /\ num_ios' = 0
    /\ stats' = NoStats
    /\ frontier_nhoods' = << >>
    /\ cached_nhoods' = << >>
    /\ batched_node_ids' = << >>
    /\ query_scratch' = NoQuery
    /\ out' = FreshOut(params.k_search)
    /\ calls' = << >>
    /\ hist' = NoHist
    /\ UNCHANGED <<auxVars, index>>

Next ==
    \/ Prepare
    \/ Seed
    \/ SelectBeam
    \/ ProcessCached
    \/ ProcessDisk
    \/ EndHop
    \/ Finish
    \/ NextQuery

Spec == Init /\ [][Next]_vars

(* one call of the traversal on its own; every step of a call is taken by the        *)
(* calling thread itself, so a step that is possible is eventually taken             *)
TraversalInit ==
    InitFrom({x \in TraversalInputs : x[2].l_search >= x[2].k_search}) /\ AuxIdle

TraversalNext ==
    \/ Prepare
    \/ Seed
    \/ SelectBeam
    \/ ProcessCached
    \/ ProcessDisk
    \/ EndHop
    \/ Finish

TraversalSpec == TraversalInit /\ [][TraversalNext]_vars /\ WF_vars(TraversalNext)

(* ------------------------------------------------------------ range_search *)
(* range_search(query1, range, min_l_search, max_l_search, indices, distances,       *)
(* min_beam_width): rounds of cached_beam_search with k_search = l_search, l_search  *)
(* doubled from round to round                                                       *)
Ranges == {0 - 4, 0, 4, 16}

RangeMaxLs == {1, MaxRangeL}

(* uint64_t cur_bw = min_beam_width > (l_search / 5) ? min_beam_width : l_search / 5, *)
(* capped at 100                                                                      *)
cur_bw(l_search, min_beam_width) ==
    LET bw == IF min_beam_width > l_search \div 5 THEN min_beam_width ELSE l_search \div 5
    IN  IF bw > 100 THEN 100 ELSE bw

(* the scan of the round's distances: the position of the first distance above range, *)
(* l_search when there is none, the old res_count when the scan has no iteration      *)
ScanWithinRange(distances, range, l_search, res_count) ==
    IF l_search = 0 THEN res_count
    ELSE IF \E i \in 1 .. l_search : distances[i] > range
    THEN (CHOOSE i \in 1 .. l_search :
             /\ distances[i] > range
             /\ \A j \in 1 .. (i - 1) : ~(distances[j] > range)) - 1
    ELSE l_search

RangeInputs ==
    { << Index(m, g, c, FALSE, FALSE, FALSE),
         [query |-> << 2 >>, range |-> r, min_l_search |-> lo, max_l_search |-> hi,
          min_beam_width |-> bw] >> :
        m \in {"L2", "INNER_PRODUCT"}, g \in {"chord", "back"}, c \in {{}, {0, 2}},
        r \in Ranges, lo \in 0 .. MaxMinL, hi \in RangeMaxLs, bw \in 0 .. 1 }

RangeInit ==
    /\ \E x \in RangeInputs :
         /\ index = x[1]
         /\ rsearch = [pc |-> "round", args |-> x[2], res_count |-> 0, stop_flag |-> FALSE,
                       l_search |-> x[2].min_l_search, indices |-> << >>,
                       distances |-> << >>]
         /\ params = Args(x[2].query, x[2].min_l_search, x[2].min_l_search,
                          cur_bw(x[2].min_l_search, x[2].min_beam_width), io_limit_default,
                          FALSE, FilterLabel, FALSE, FALSE, FALSE, FALSE, FALSE, FALSE)
    /\ pc = "caller"
    /\ retset = << >>
    /\ visited = {}
    /\ full_retset = << >>
    /\ node_distances = EmptyMemo
    /\ num_ios = 0
    /\ stats = NoStats
    /\ frontier_nhoods = << >>
    /\ cached_nhoods = << >>
    /\ batched_node_ids = << >>
    /\ query_scratch = NoQuery
    /\ out = FreshOut(0)
    /\ calls = << >>
    /\ hist = NoHist
    /\ run = 1
    /\ prev = [valid |-> FALSE]
    /\ batch = NoBatch
    /\ SetupIdle
    /\ thread_data = setup_thread_data(NumThreads)
    /\ data = 0

(* top of the loop body: resize the result vectors to l_search, fill the distances   *)
(* with the largest float, call cached_beam_search(query1, l_search, l_search, ...)   *)
RangeRound ==
    /\ rsearch.pc = "round"
    /\ pc = "caller"
    /\ rsearch' = [rsearch EXCEPT !.pc = "call"]
    /\ params' = Args(rsearch.args.query, rsearch.l_search, rsearch.l_search,
                      cur_bw(rsearch.l_search, rsearch.args.min_beam_width), io_limit_default,
                      FALSE, FilterLabel, FALSE, FALSE, FALSE, FALSE, FALSE, FALSE)
    /\ out' = [indices |-> Resize(out.indices, rsearch.l_search, 0),
               distances |-> [i \in 1 .. rsearch.l_search |-> FLT_MAX],
               written |-> FALSE]
    /\ pc' = "idle"
    /\ num_ios' = 0
    /\ node_distances' = EmptyMemo
    /\ hist' = NoHist
    /\ frontier_nhoods' = << >>
    /\ cached_nhoods' = << >>
    /\ batched_node_ids' = << >>
    /\ UNCHANGED <<setupVars, batch, thread_data, data, index, retset, visited, full_retset, stats,
                   query_scratch, calls, run, prev>>

(* after the call: the scan for res_count, the two stop tests, the doubling *)
RangeCount ==
    /\ rsearch.pc = "call"
    /\ pc = "done"
    /\ LET l == rsearch.l_search
           n == ScanWithinRange(out.distances, rsearch.args.range, l, rsearch.res_count)
           stop == n < l \div 2 \/ 2 * l > rsearch.args.max_l_search
       IN  rsearch' = [rsearch EXCEPT !.res_count = n, !.stop_flag = stop, !.l_search = 2 * l,
                                      !.pc = IF stop THEN "exit" ELSE "round"]
    /\ pc' = "caller"
    /\ UNCHANGED <<setupVars, batch, thread_data, data, index, params, retset, visited, full_retset,
                   node_distances, num_ios, stats, frontier_nhoods, cached_nhoods,
                   batched_node_ids, query_scratch, out, calls, hist, run, prev>>

(* after the loop: indices.resize(res_count), distances.resize(res_count), return *)
RangeReturn ==
    /\ rsearch.pc = "exit"
    /\ rsearch' = [rsearch EXCEPT !.pc = "returned",
                                  !.indices = Resize(out.indices, rsearch.res_count, 0),
                                  !.distances = Resize(out.distances, rsearch.res_count, 0)]
    /\ UNCHANGED <<setupVars, batch, thread_data, data, index, params, pc, retset, visited, full_retset,
                   node_distances, num_ios, stats, frontier_nhoods, cached_nhoods,
                   batched_node_ids, query_scratch, out, calls, hist, run, prev>>

RangeNext ==
    \/ RangeRound
    \/ Prepare
    \/ Seed
    \/ SelectBeam
    \/ ProcessCached
    \/ ProcessDisk
    \/ EndHop
    \/ Finish
    \/ RangeCount
    \/ RangeReturn

(* range_search runs on the calling thread: a step that is possible is eventually taken *)
RangeSpec == RangeInit /\ [][RangeNext]_vars /\ WF_vars(RangeNext)

(* ------------------------------------------------------------ batch_search *)
(* One worker's calls are modelled step by step. The other worker of the pool takes  *)
(* rows and borrows and returns scratch objects; the rows it writes are not recorded. *)
NoRow == [by |-> "none"]

BatchInputs ==
    { << Index("L2", g, c, FALSE, FALSE, FALSE),
         [queries |-> qs, knn |-> k, complexity |-> l, beam_width |-> 1] >> :
        g \in {"ring", "back"}, c \in {{}, {0, 2}}, qs \in [1 .. MaxQueries -> Queries],
        k \in 1 .. MaxK, l \in 1 .. MaxL }

BatchInit ==
    /\ \E x \in BatchInputs :
         /\ index = x[1]
         /\ batch = [pc |-> "run", args |-> x[2], next |-> 1, mine |-> 0,
                     rows |-> [i \in 1 .. MaxQueries |-> NoRow],
                     other |-> [row |-> 0, data |-> 0]]
         /\ params = Args(x[2].queries[1], x[2].knn, x[2].complexity, x[2].beam_width,
                          io_limit_default, FALSE, FilterLabel, FALSE, FALSE, FALSE, FALSE,
                          FALSE, FALSE)
         /\ out = FreshOut(x[2].knn)
    /\ pc = "caller"
    /\ retset = << >>
    /\ visited = {}
    /\ full_retset = << >>
    /\ node_distances = EmptyMemo
    /\ num_ios = 0
    /\ stats = NoStats
    /\ frontier_nhoods = << >>
    /\ cached_nhoods = << >>
    /\ batched_node_ids = << >>
    /\ query_scratch = NoQuery
    /\ calls = << >>
    /\ hist = NoHist
    /\ run = 1
    /\ prev = [valid |-> FALSE]
    /\ rsearch = NoRange
    /\ SetupIdle
    /\ thread_data = setup_thread_data(NumThreads)
    /\ data = 0

(* schedule(dynamic, 1): this worker takes the next iteration i and calls            *)
(* cached_beam_search(queries.data(i), knn, complexity, row i of u64_ids and dists)   *)
BatchTake ==
    /\ batch.pc = "run"
    /\ pc = "caller"
    /\ batch.next <= MaxQueries
    /\ batch' = [batch EXCEPT !.mine = batch.next, !.next = @ + 1]
    /\ params' = [params EXCEPT !.query = batch.args.queries[batch.next]]
    /\ out' = FreshOut(batch.args.knn)
    /\ pc' = "idle"
    /\ num_ios' = 0
    /\ node_distances' = EmptyMemo
    /\ hist' = NoHist
    /\ frontier_nhoods' = << >>
    /\ cached_nhoods' = << >>
    /\ batched_node_ids' = << >>
    /\ UNCHANGED <<setupVars, rsearch, thread_data, data, index, retset, visited, full_retset, stats,
                   query_scratch, calls, run, prev>>

(* the call of this worker has returned: row i holds what it wrote *)
BatchStore ==
    /\ batch.pc = "run"
    /\ pc = "done"
    /\ batch' = [batch EXCEPT !.mine = 0,
                              !.rows[batch.mine] = [by |-> "this", indices |-> out.indices,
                                                    distances |-> out.distances]]
    /\ pc' = "caller"
    /\ UNCHANGED <<setupVars, rsearch, thread_data, data, index, params, retset, visited, full_retset,
                   node_distances, num_ios, stats, frontier_nhoods, cached_nhoods,
                   batched_node_ids, query_scratch, out, calls, hist, run, prev>>

(* the other worker takes the next iteration and its call borrows a scratch object *)
OtherTake ==
    /\ batch.pc = "run"
    /\ batch.other.row = 0
    /\ batch.next <= MaxQueries
    /\ thread_data # << >>
    /\ batch' = [batch EXCEPT !.other = [row |-> batch.next, data |-> Head(thread_data)],
                              !.next = @ + 1]
    /\ thread_data' = Tail(thread_data)
    /\ UNCHANGED <<setupVars, rsearch, data, index, params, pc, retset, visited, full_retset,
                   node_distances, num_ios, stats, frontier_nhoods, cached_nhoods,
                   batched_node_ids, query_scratch, out, calls, hist, run, prev>>

(* the call of the other worker returns: its scratch object goes back to the pool *)
OtherFinish ==
    /\ batch.pc = "run"
    /\ batch.other.row # 0
    /\ batch' = [batch EXCEPT !.other = [row |-> 0, data |-> 0],
                              !.rows[batch.other.row] = [by |-> "other"]]
    /\ thread_data' = << batch.other.data >> \o thread_data
    /\ UNCHANGED <<setupVars, rsearch, data, index, params, pc, retset, visited, full_retset,
                   node_distances, num_ios, stats, frontier_nhoods, cached_nhoods,
                   batched_node_ids, query_scratch, out, calls, hist, run, prev>>

(* the end of the parallel loop: every iteration has been taken and has finished *)
BatchReturn ==
    /\ batch.pc = "run"
    /\ pc = "caller"
    /\ batch.next > MaxQueries
    /\ batch.mine = 0
    /\ batch.other.row = 0
    /\ batch' = [batch EXCEPT !.pc = "returned"]
    /\ UNCHANGED <<setupVars, rsearch, thread_data, data, index, params, pc, retset, visited, full_retset,
                   node_distances, num_ios, stats, frontier_nhoods, cached_nhoods,
                   batched_node_ids, query_scratch, out, calls, hist, run, prev>>

BatchNext ==
    \/ BatchTake
    \/ Prepare
    \/ Seed
    \/ SelectBeam
    \/ ProcessCached
    \/ ProcessDisk
    \/ EndHop
    \/ Finish
    \/ BatchStore
    \/ OtherTake
    \/ OtherFinish
    \/ BatchReturn

BatchSpec == BatchInit /\ [][BatchNext]_vars

(* ------------------------------------------------ callers of the scratch pool *)
(* calls of cached_beam_search and read_nodes made by more threads than the pool has *)
(* scratch objects: each call constructs a ScratchStoreManager on _thread_data at    *)
(* its start and holds it to its end. Here batch holds the callers.                  *)
MaxCallers == 3
MaxCalls == 2

PoolKinds == {"cached_beam_search", "read_nodes"}

PoolInit ==
    /\ InitFrom({ << Index("L2", "ring", {}, FALSE, FALSE, FALSE),
                     Args(<< 2 >>, 1, 1, 1, io_limit_default, FALSE, FilterLabel, FALSE, FALSE,
                          FALSE, FALSE, FALSE, FALSE) >> })
    /\ rsearch = NoRange
    /\ SetupIdle
    /\ data = 0
    /\ \E n \in 1 .. NumThreads :
         /\ thread_data = setup_thread_data(n)
         /\ batch = [pc |-> "pool", created |-> n,
                     callers |-> [c \in 1 .. MaxCallers |->
                                     [kind |-> "none", stage |-> "out", scratch |-> 0,
                                      calls |-> 0]]]

poolRest == <<setupVars, rsearch, data, index, params, pc, retset, visited, full_retset,
              node_distances, num_ios, stats, frontier_nhoods, cached_nhoods,
              batched_node_ids, query_scratch, out, calls, hist, run, prev>>

(* a thread calls cached_beam_search or read_nodes and comes to the declaration of   *)
(* the manager                                                                        *)
PoolCall ==
    /\ batch.pc = "pool"
    /\ \E c \in 1 .. MaxCallers, k \in PoolKinds :
         /\ batch.callers[c].stage = "out"
         /\ batch.callers[c].calls < MaxCalls
         /\ batch' = [batch EXCEPT !.callers[c] =
                          [kind |-> k, stage |-> "entry", scratch |-> 0, calls |-> @.calls + 1]]
    /\ UNCHANGED <<poolRest, thread_data>>

(* the constructor of the manager: pops a scratch object, waiting while there is     *)
(* none; manager.scratch_space() is the popped object                                *)
PoolBorrow ==
    /\ batch.pc = "pool"
    /\ thread_data # << >>
    /\ \E c \in 1 .. MaxCallers :
         /\ batch.callers[c].stage = "entry"
         /\ batch' = [batch EXCEPT !.callers[c].stage = "running",
                                   !.callers[c].scratch = Head(thread_data)]
    /\ thread_data' = Tail(thread_data)
    /\ UNCHANGED poolRest

(* the call ends, by return or by exception: the destructor of the manager pushes    *)
(* the object back                                                                    *)
PoolReturn ==
    /\ batch.pc = "pool"
    /\ \E c \in 1 .. MaxCallers :
         /\ batch.callers[c].stage = "running"
         /\ batch' = [batch EXCEPT !.callers[c].stage = "out", !.callers[c].scratch = 0]
         /\ thread_data' = << batch.callers[c].scratch >> \o thread_data
    /\ UNCHANGED poolRest

PoolNext == PoolCall \/ PoolBorrow \/ PoolReturn

PoolSpec == PoolInit /\ [][PoolNext]_vars

(* -------------------------------------------------------------------- load *)
(* what no step of load, of the cache warmup or of the embedding client touches *)
searchVars == <<index, params, pc, retset, visited, full_retset, node_distances, num_ios, stats,
                frontier_nhoods, cached_nhoods, batched_node_ids, query_scratch, out, calls,
                hist, run, prev, rsearch, batch, data, sect, prune>>

(* the files load is pointed at: which of them open, and the header fields it tests *)
LoadInputs ==
    [use_partition : BOOLEAN, pq_files_open : BOOLEAN, pq_file_num_centroids : {255, 256},
     n_chunks : {1, MAX_PQ_CHUNKS + 1}, disk_pq_pivots : BOOLEAN, index_open : BOOLEAN,
     disk_nnodes : {NumPoints, NumPoints + 1}, max_degree : {2, MAX_GRAPH_DEGREE + 1},
     reorder_data_exists : BOOLEAN, medoids_file : BOOLEAN, partition_open : BOOLEAN,
     graph_open : BOOLEAN]

LoadInit ==
    /\ InitFrom({ << Index("L2", "ring", {}, FALSE, FALSE, FALSE),
                     Args(<< 2 >>, 1, 1, 1, io_limit_default, FALSE, FilterLabel, FALSE, FALSE,
                          FALSE, FALSE, FALSE, FALSE) >> })
    /\ rsearch = NoRange
    /\ batch = NoBatch
    /\ warm = [pc |-> "none"]
    /\ zmq = [pc |-> "none"]
    /\ LayoutIdle
    /\ thread_data = << >>
    /\ data = 0
    /\ \E f \in LoadInputs :
         loader = [pc |-> "pq", files |-> f, result |-> "running", use_disk_index_pq |-> FALSE,
                   partition_loaded |-> FALSE, graph_loaded |-> FALSE]

(* load_from_separate_paths up to the disk PQ table: PQ pivots metadata, compressed  *)
(* vectors, PQ table, chunk test, disk PQ pivots. The readers of the bin files end    *)
(* with an exception when a file does not open.                                      *)
LoadPQ ==
    /\ loader.pc = "pq"
    /\ LET f == loader.files
       IN  loader' =
             IF ~f.pq_files_open THEN [loader EXCEPT !.pc = "end", !.result = "throw"]
             ELSE IF f.pq_file_num_centroids # 256
             THEN [loader EXCEPT !.pc = "end", !.result = "-1"]
             ELSE IF f.n_chunks > MAX_PQ_CHUNKS
             THEN [loader EXCEPT !.pc = "end", !.result = "throw"]
             ELSE [loader EXCEPT !.pc = "metadata", !.use_disk_index_pq = f.disk_pq_pivots]
    /\ UNCHANGED <<searchVars, thread_data, warm, zmq>>

(* the header of the disk index, read only "if (!_use_partition)" *)
LoadMetadata ==
    /\ loader.pc = "metadata"
    /\ LET f == loader.files
       IN  loader' =
             IF f.use_partition THEN [loader EXCEPT !.pc = "medoids"]
             ELSE IF ~f.index_open THEN [loader EXCEPT !.pc = "end", !.result = "-1"]
             ELSE IF f.disk_nnodes # NumPoints
             THEN [loader EXCEPT !.pc = "end", !.result = "-1"]
             ELSE IF f.max_degree > MAX_GRAPH_DEGREE
             THEN [loader EXCEPT !.pc = "end", !.result = "throw"]
             ELSE IF f.reorder_data_exists /\ ~loader.use_disk_index_pq
             THEN [loader EXCEPT !.pc = "end", !.result = "throw"]
             ELSE [loader EXCEPT !.pc = "medoids"]
    /\ UNCHANGED <<searchVars, thread_data, warm, zmq>>

(* setup_thread_data, then the medoids: without a medoids file partition mode runs   *)
(* into assert(false), which ends the process or, compiled out, lets load go on      *)
LoadMedoids ==
    /\ loader.pc = "medoids"
    /\ thread_data' = setup_thread_data(NumThreads) \o thread_data
    /\ \E asserts \in BOOLEAN :
         loader' = IF ~loader.files.medoids_file /\ loader.files.use_partition /\ asserts
                   THEN [loader EXCEPT !.pc = "end", !.result = "abort"]
                   ELSE [loader EXCEPT !.pc = "partition"]
    /\ UNCHANGED <<searchVars, warm, zmq>>

(* partition mode: read_partition_info and load_graph_index, whose return values are *)
(* dropped; then "return 0"                                                          *)
LoadPartition ==
    /\ loader.pc = "partition"
    /\ loader' = [loader EXCEPT
                    !.pc = "end", !.result = "0",
                    !.partition_loaded = loader.files.use_partition
                                             /\ loader.files.partition_open,
                    !.graph_loaded = loader.files.use_partition /\ loader.files.graph_open]
    /\ UNCHANGED <<searchVars, thread_data, warm, zmq>>

LoadNext == LoadPQ \/ LoadMetadata \/ LoadMedoids \/ LoadPartition

LoadSpec == LoadInit /\ [][LoadNext]_vars

(* ------------------------------------------------------------ cache warmup *)
(* StaticDiskIndex::cache_bfs_levels and cache_sample_paths: a node list is made     *)
(* and load_cache_list reads the listed nodes into the cache                         *)
RECURSIVE SortedSeq(_)
SortedSeq(S) ==
    IF S = {} THEN << >>
    ELSE LET m == CHOOSE x \in S : \A y \in S : x <= y
         IN  << m >> \o SortedSeq(S \ {m})

(* std::round(_num_points * 0.1) *)
tenp_nodes(n) == (n + 5) \div 10

(* the adjacency lists of the sorted nodes_to_expand, in the order the loops visit them *)
RECURSIVE LevelNbrs(_, _, _)
LevelNbrs(graph, n, S) ==
    IF S = {} THEN << >>
    ELSE LET m == CHOOSE x \in S : \A y \in S : x <= y
         IN  NbrsOf(graph, n, m) \o LevelNbrs(graph, n, S \ {m})

(* a level explored to its end, whatever the number of nodes collected *)
ExploreWholeLevel(nbrs, j, node_set, cur_level, num) ==
    cur_level \cup ({nbrs[i] : i \in j .. Len(nbrs)} \ node_set)

(* "explore next level": insert the neighbours not in node_set until finish_flag *)
RECURSIVE ExploreLevel(_, _, _, _, _)
ExploreLevel(nbrs, j, node_set, cur_level, num) ==
    IF j > Len(nbrs) THEN cur_level
    ELSE LET cur == IF nbrs[j] \notin node_set THEN cur_level \cup {nbrs[j]} ELSE cur_level
         IN  IF Cardinality(cur) + Cardinality(node_set) >= num THEN cur
             ELSE ExploreLevel(nbrs, j + 1, node_set, cur, num)

(* every id inserted *)
InsertAll(ids, i, cur_level, num) == cur_level \cup {ids[k] : k \in i .. Len(ids)}

(* insert ids into cur_level while it holds fewer than num *)
RECURSIVE InsertUpTo(_, _, _, _)
InsertUpTo(ids, i, cur_level, num) ==
    IF i > Len(ids) \/ ~(Cardinality(cur_level) < num) THEN cur_level
    ELSE InsertUpTo(ids, i + 1, cur_level \cup {ids[i]}, num)

WarmSizes == {1, 4, 5, 15, MaxWarmPoints}

SampleSets == { << << 2 >> >>, << << 2 >>, << 0 - 2 >> >> }

WarmInputs ==
    { << Index("L2", g, {}, FALSE, u, FALSE),
         [mode |-> "bfs", num_nodes_to_cache |-> c, num_points |-> n, samples |-> << >>] >> :
        g \in GraphKinds, u \in {FALSE}, c \in 0 .. MaxToCache, n \in WarmSizes }
    \cup
    { << Index("L2", g, {}, FALSE, u, FALSE),
         [mode |-> "sample", num_nodes_to_cache |-> c, num_points |-> NumPoints,
          samples |-> q] >> :
        g \in GraphKinds, u \in BOOLEAN, c \in 0 .. (NumPoints + 1), q \in SampleSets }

WarmInit ==
    /\ \E x \in WarmInputs :
         /\ index = x[1]
         /\ warm = [pc |-> "start", args |-> x[2], num |-> x[2].num_nodes_to_cache,
                    node_set |-> {}, cur_level |-> {}, node_list |-> << >>,
                    counter |-> [id \in Nodes |-> 0], next |-> 1, read |-> {},
                    list_read |-> {}]
    /\ params = Args(<< 2 >>, 1, 15, 4, io_limit_default, TRUE, FilterLabel, FALSE, FALSE,
                     FALSE, FALSE, FALSE, FALSE)
    /\ pc = "caller"
    /\ retset = << >>
    /\ visited = {}
    /\ full_retset = << >>
    /\ node_distances = EmptyMemo
    /\ num_ios = 0
    /\ stats = NoStats
    /\ frontier_nhoods = << >>
    /\ cached_nhoods = << >>
    /\ batched_node_ids = << >>
    /\ query_scratch = NoQuery
    /\ out = FreshOut(1)
    /\ calls = << >>
    /\ hist = NoHist
    /\ run = 1
    /\ prev = [valid |-> FALSE]
    /\ rsearch = NoRange
    /\ batch = NoBatch
    /\ loader = [pc |-> "none"]
    /\ zmq = [pc |-> "none"]
    /\ LayoutIdle
    /\ thread_data = setup_thread_data(NumThreads)
    /\ data = 0

(* cache_bfs_levels up to the level loop: the cap at ten percent, the medoids *)
WarmBfsStart ==
    /\ warm.pc = "start"
    /\ warm.args.mode = "bfs"
    /\ LET tenp == tenp_nodes(warm.args.num_points)
           num == IF warm.args.num_nodes_to_cache > tenp
                  THEN (IF tenp = 0 THEN 1 ELSE tenp)
                  ELSE warm.args.num_nodes_to_cache
           lvl == InsertUpTo(medoids, 1, {}, num)
           lvl2 == IF Cardinality(lvl) < num
                   THEN InsertUpTo(filter_to_medoid_ids[FilterLabel], 1, lvl, num)
                   ELSE lvl
       IN  warm' = [warm EXCEPT !.pc = "level", !.num = num, !.cur_level = lvl2]
    /\ UNCHANGED <<searchVars, thread_data, loader, zmq>>

(* one pass of the level loop: prev_level joins node_set and is read and expanded *)
WarmBfsLevel ==
    /\ warm.pc = "level"
    /\ Cardinality(warm.node_set) + Cardinality(warm.cur_level) < warm.num
    /\ warm.cur_level # {}
    /\ LET nodes_to_expand == warm.cur_level \ warm.node_set
           node_set == warm.node_set \cup nodes_to_expand
       IN  warm' = [warm EXCEPT
                      !.node_set = node_set,
                      !.read = @ \cup nodes_to_expand,
                      !.cur_level = ExploreLevel(
                          LevelNbrs(index.graph, warm.args.num_points, nodes_to_expand), 1,
                          node_set, {}, warm.num)]
    /\ UNCHANGED <<searchVars, thread_data, loader, zmq>>

(* after the level loop: node_set, then cur_level, are pushed to node_list *)
WarmBfsEnd ==
    /\ warm.pc = "level"
    /\ ~(/\ Cardinality(warm.node_set) + Cardinality(warm.cur_level) < warm.num
         /\ warm.cur_level # {})
    /\ warm' = [warm EXCEPT !.pc = "load",
                            !.node_list = SortedSeq(warm.node_set) \o SortedSeq(warm.cur_level)]
    /\ UNCHANGED <<searchVars, thread_data, loader, zmq>>

(* generate_cache_list_from_sample_queries up to the parallel loop *)
WarmSampleStart ==
    /\ warm.pc = "start"
    /\ warm.args.mode = "sample"
    /\ warm' = IF warm.args.num_nodes_to_cache >= warm.args.num_points
               THEN [warm EXCEPT !.pc = "load",
                                 !.node_list = [i \in 1 .. warm.args.num_points |-> i - 1]]
               ELSE [warm EXCEPT !.pc = "sample"]
    /\ UNCHANGED <<searchVars, thread_data, loader, zmq>>

(* one iteration of the parallel loop: cached_beam_search(sample i, 1, l_search, ...,  *)
(* beamwidth, filtered_search, label_for_search, false) with l_search 15, beamwidth 4 *)
WarmSampleSearch ==
    /\ warm.pc = "sample"
    /\ pc = "caller"
    /\ warm.next <= Len(warm.args.samples)
    /\ params' = [params EXCEPT !.query = warm.args.samples[warm.next]]
    /\ out' = FreshOut(1)
    /\ pc' = "idle"
    /\ num_ios' = 0
    /\ node_distances' = EmptyMemo
    /\ hist' = NoHist
    /\ frontier_nhoods' = << >>
    /\ cached_nhoods' = << >>
    /\ batched_node_ids' = << >>
    /\ UNCHANGED <<warm, loader, zmq, sect, prune, rsearch, batch, thread_data, data, index,
                   retset, visited, full_retset, stats, query_scratch, calls, run, prev>>

(* what the call left in _node_visit_counter: one count for each node it popped, all   *)
(* of them read from disk since the cache is empty                                   *)
WarmSampleCount ==
    /\ warm.pc = "sample"
    /\ pc = "done"
    /\ LET popped == {retset[i].id : i \in {j \in 1 .. Len(retset) : retset[j].expanded}}
       IN  warm' = [warm EXCEPT
                      !.next = @ + 1,
                      !.read = @ \cup popped,
                      !.counter = [id \in Nodes |-> @[id] + (IF id \in popped THEN 1 ELSE 0)]]
    /\ pc' = "caller"
    /\ UNCHANGED <<loader, zmq, sect, prune, rsearch, batch, thread_data, data, index, params,
                   retset, visited, full_retset, node_distances, num_ios, stats, frontier_nhoods,
                   cached_nhoods, batched_node_ids, query_scratch, out, calls, hist, run, prev>>

(* after the loop: sort the counters, most visited first, and take the leading ids;   *)
(* the order of nodes with equal counts is left to std::sort                          *)
WarmSampleRank ==
    /\ warm.pc = "sample"
    /\ pc = "caller"
    /\ warm.next > Len(warm.args.samples)
    /\ \E order \in [1 .. NumPoints -> Nodes] :
         /\ \A i, j \in 1 .. NumPoints : i < j => order[i] # order[j]
         /\ \A i \in 1 .. (NumPoints - 1) :
                warm.counter[order[i]] >= warm.counter[order[i + 1]]
         /\ warm' = [warm EXCEPT
                       !.pc = "load",
                       !.node_list = SubSeq(order, 1, IF warm.num < NumPoints THEN warm.num
                                                      ELSE NumPoints)]
    /\ UNCHANGED <<searchVars, thread_data, loader, zmq>>

(* load_cache_list: the listed nodes are read in blocks and inserted into the cache *)
WarmLoadCache ==
    /\ warm.pc = "load"
    /\ LET listed == {warm.node_list[i] : i \in 1 .. Len(warm.node_list)}
       IN  /\ warm' = [warm EXCEPT !.pc = "done", !.read = @ \cup listed, !.list_read = listed]
           /\ index' = [index EXCEPT !.cached = listed]
    /\ UNCHANGED <<loader, zmq, sect, prune, rsearch, batch, thread_data, data, params, pc,
                   retset, visited, full_retset, node_distances, num_ios, stats,
                   frontier_nhoods, cached_nhoods, batched_node_ids, query_scratch, out, calls,
                   hist, run, prev>>

WarmNext ==
    \/ WarmBfsStart
    \/ WarmBfsLevel
    \/ WarmBfsEnd
    \/ WarmSampleStart
    \/ WarmSampleSearch
    \/ Prepare
    \/ Seed
    \/ SelectBeam
    \/ ProcessDisk
    \/ EndHop
    \/ Finish
    \/ WarmSampleCount
    \/ WarmSampleRank
    \/ WarmLoadCache

WarmSpec == WarmInit /\ [][WarmNext]_vars

(* ------------------------------------------------- visit counters of the warmup *)
(* generate_cache_list_from_sample_queries with its parallel loop: each thread of   *)
(* the loop takes the next sample and runs cached_beam_search on it, which pops     *)
(* nodes from its frontier and counts each pop when _count_visited_nodes is set.    *)
(* Here warm holds the flag, the counter vector and the threads of the loop.        *)
MaxSamples == 2
MaxLaterPops == 2

(* the nodes one sample search pops: the medoid first, no node twice *)
PopLists == { << 0 >>, << 0, 1 >>, << 0, 2 >> }

VisitInputs ==
    [num_nodes_to_cache : {0, 1, 2, NumPoints}, sample_file : BOOLEAN,
     pops : UNION {[1 .. n -> PopLists] : n \in 1 .. MaxSamples}]

IdleThread == [todo |-> << >>, stage |-> "idle", seen |-> 0]

VisitInit ==
    /\ InitFrom({ << Index("L2", "ring", {}, FALSE, FALSE, FALSE),
                     Args(<< 2 >>, 1, 15, 4, io_limit_default, FALSE, FilterLabel, FALSE, FALSE,
                          FALSE, FALSE, FALSE, FALSE) >> })
    /\ rsearch = NoRange
    /\ batch = NoBatch
    /\ loader = [pc |-> "none"]
    /\ zmq = [pc |-> "none"]
    /\ LayoutIdle
    /\ thread_data = setup_thread_data(NumThreads)
    /\ data = 0
    /\ \E a \in VisitInputs :
         warm = [pc |-> "start", args |-> a, count_visited_nodes |-> FALSE,
                 node_visit_counter |-> << >>, next |-> 1,
                 threads |-> [t \in 1 .. NumThreads |-> IdleThread],
                 popped |-> [id \in Nodes |-> 0], node_list |-> << >>,
                 result |-> "none", at_return |-> << >>, later |-> 0]

visitRest == <<searchVars, thread_data, loader, zmq>>

(* the increment with the value the thread read before it: a plain ++ *)
plain_add(counter, id, seen) == [counter EXCEPT ![id + 1].second = seen + 1]

(* reinterpret_cast<std::atomic<uint32_t> &>(counter[id].second).fetch_add(1); a     *)
(* count stays below the number of samples, far from the 32-bit wrap                 *)
fetch_add(counter, id, seen) == [counter EXCEPT ![id + 1].second = @ + 1]

(* the function up to the parallel loop: the quick list, the flag and the zeroed     *)
(* counters, the test for the sample file                                            *)
VisitStart ==
    /\ warm.pc = "start"
    /\ warm' =
         IF warm.args.num_nodes_to_cache >= NumPoints
         THEN [warm EXCEPT !.pc = "returned", !.result = "all",
                           !.node_list = [i \in 1 .. NumPoints |-> i - 1],
                           !.at_return = warm.node_visit_counter]
         ELSE LET zeroed == [i \in 1 .. NumPoints |-> [first |-> i - 1, second |-> 0]]
              IN  IF ~warm.args.sample_file
                  THEN [warm EXCEPT !.pc = "returned", !.result = "no samples",
                                    !.count_visited_nodes = TRUE,
                                    !.node_visit_counter = zeroed, !.at_return = zeroed]
                  ELSE [warm EXCEPT !.pc = "sample", !.count_visited_nodes = TRUE,
                                    !.node_visit_counter = zeroed]
    /\ UNCHANGED visitRest

(* schedule(dynamic, 1): a free thread takes the next sample *)
VisitTake ==
    /\ warm.pc = "sample"
    /\ warm.next <= Len(warm.args.pops)
    /\ \E t \in 1 .. NumThreads :
         /\ warm.threads[t].stage = "idle"
         /\ warm' = [warm EXCEPT !.next = @ + 1,
                                 !.threads[t] = [todo |-> warm.args.pops[warm.next],
                                                 stage |-> "pop", seen |-> 0]]
    /\ UNCHANGED visitRest

(* retset.closest_unexpanded() in the search of a thread *)
VisitPop ==
    /\ warm.pc = "sample"
    /\ \E t \in 1 .. NumThreads :
         /\ warm.threads[t].stage = "pop"
         /\ LET id == Head(warm.threads[t].todo)
            IN  warm' = [warm EXCEPT
                           !.popped[id] = @ + 1,
                           !.threads[t].stage = "count",
                           !.threads[t].seen = warm.node_visit_counter[id + 1].second]
    /\ UNCHANGED visitRest

(* "if (this->_count_visited_nodes)" and the increment; the search ends after its    *)
(* last pop                                                                           *)
VisitCount ==
    /\ warm.pc = "sample"
    /\ \E t \in 1 .. NumThreads :
         /\ warm.threads[t].stage = "count"
         /\ LET th == warm.threads[t]
                rest == Tail(th.todo)
            IN  warm' = [warm EXCEPT
                           !.node_visit_counter =
                               IF warm.count_visited_nodes
                               THEN fetch_add(@, Head(th.todo), th.seen) ELSE @,
                           !.threads[t] = IF rest = << >> THEN IdleThread
                                          ELSE [th EXCEPT !.todo = rest, !.stage = "pop"]]
    /\ UNCHANGED visitRest

(* the parallel loop has ended *)
LoopJoined ==
    /\ warm.pc = "sample"
    /\ warm.next > Len(warm.args.pops)
    /\ \A t \in 1 .. NumThreads : warm.threads[t].stage = "idle"

(* after the loop: std::sort on the counts, largest first (the order of equal counts *)
(* is open), the leading ids go to node_list, the flag is cleared                    *)
VisitRank ==
    /\ LoopJoined
    /\ \E order \in [1 .. NumPoints -> 1 .. NumPoints] :
         LET sorted == [i \in 1 .. NumPoints |-> warm.node_visit_counter[order[i]]]
             num == IF warm.args.num_nodes_to_cache < Len(sorted)
                    THEN warm.args.num_nodes_to_cache ELSE Len(sorted)
         IN  /\ \A i, j \in 1 .. NumPoints : i < j => order[i] # order[j]
             /\ \A i \in 1 .. (NumPoints - 1) : sorted[i].second >= sorted[i + 1].second
             /\ warm' = [warm EXCEPT !.pc = "returned", !.result = "ranked",
                                     !.node_visit_counter = sorted,
                                     !.node_list = [i \in 1 .. num |-> sorted[i].first],
                                     !.count_visited_nodes = FALSE,
                                     !.at_return = sorted]
    /\ UNCHANGED visitRest

(* a pop of a cached_beam_search called after the function has returned *)
VisitLaterPop ==
    /\ warm.pc = "returned"
    /\ warm.later < MaxLaterPops
    /\ \E id \in Nodes :
         warm' = [warm EXCEPT
                    !.later = @ + 1,
                    !.node_visit_counter =
                        IF warm.count_visited_nodes THEN fetch_add(@, id, 0) ELSE @]
    /\ UNCHANGED visitRest

VisitNext == VisitStart \/ VisitTake \/ VisitPop \/ VisitCount \/ VisitRank \/ VisitLaterPop

VisitSpec == VisitInit /\ [][VisitNext]_vars

(* ----------------------------------------------------- fetch_embeddings_zmq *)
(* One thread's calls: tl_socket is thread_local and lives across them. A socket is  *)
(* named by its number of creation, 0 stands for nullptr.                            *)
ZmqDims == {0 - 1, 0, 1, 2}

(* a reply as received: whether it parses as a NodeEmbeddingResponse, its dimensions *)
(* field, and embeddings_data as whole 4-byte floats followed by extra bytes         *)
ZmqResponses ==
    [parses : BOOLEAN,
     dimensions : {<< b, d >> : b \in ZmqDims, d \in ZmqDims} \cup {<< 1 >>, << 1, 1, 1 >>},
     words : {<< >>, << 7 >>, << 7, 8 >>, << 7, 8, 9, 10 >>},
     extra : {0, 1}]

NoResponse == [parses |-> FALSE, dimensions |-> << >>, words |-> << >>, extra |-> 0]

emb_data_size(r) == 4 * Len(r.words) + r.extra

(* emb_data.size() == (size_t)batch_size * embedding_dim * sizeof(float): the product *)
(* is taken modulo 2^64, so one negative factor with a non-zero other one gives a     *)
(* value no message can have, and two negative factors give 4 * |b| * |d|             *)
ExpectedBytesMatch(batch_size, embedding_dim, size) ==
    IF batch_size = 0 \/ embedding_dim = 0 THEN size = 0
    ELSE IF (batch_size < 0) = (embedding_dim < 0)
    THEN size = 4 * AbsVal(batch_size) * AbsVal(embedding_dim)
    ELSE FALSE

(* a size test that lets every batch size pass *)
AnyBatch(batch_size) == TRUE

BatchAccepted(batch_size) == batch_size >= 0

ZmqInit ==
    /\ InitFrom({ << Index("L2", "ring", {}, FALSE, FALSE, FALSE),
                     Args(<< 2 >>, 1, 1, 1, io_limit_default, FALSE, FilterLabel, FALSE, FALSE,
                          FALSE, FALSE, FALSE, FALSE) >> })
    /\ rsearch = NoRange
    /\ batch = NoBatch
    /\ loader = [pc |-> "none"]
    /\ warm = [pc |-> "none"]
    /\ LayoutIdle
    /\ thread_data = setup_thread_data(NumThreads)
    /\ data = 0
    /\ zmq = [pc |-> "idle", tl_socket |-> 0, sockets |-> 0, closed |-> {}, fetches |-> 0,
              sent |-> FALSE, received |-> FALSE, response |-> NoResponse,
              success |-> FALSE, out_embeddings |-> << >>]

(* a caller passes node ids and an empty out_embeddings *)
ZmqCall ==
    /\ zmq.pc \in {"idle", "returned"}
    /\ zmq.fetches < MaxFetches
    /\ zmq' = [zmq EXCEPT !.pc = "connect", !.fetches = @ + 1, !.sent = FALSE,
                          !.received = FALSE, !.response = NoResponse, !.success = FALSE,
                          !.out_embeddings = << >>]
    /\ UNCHANGED <<searchVars, thread_data, loader, warm>>

(* "if (tl_socket == nullptr)": zmq_socket, the timeouts, zmq_connect *)
ZmqConnect ==
    /\ zmq.pc = "connect"
    /\ \E created, connected \in BOOLEAN :
         zmq' = IF zmq.tl_socket # 0 THEN [zmq EXCEPT !.pc = "send"]
                ELSE IF ~created THEN [zmq EXCEPT !.pc = "returned"]
                ELSE IF ~connected
                THEN [zmq EXCEPT !.pc = "returned", !.sockets = @ + 1,
                                 !.closed = @ \cup {zmq.sockets + 1}]
                ELSE [zmq EXCEPT !.pc = "send", !.sockets = @ + 1,
                                 !.tl_socket = zmq.sockets + 1]
    /\ UNCHANGED <<searchVars, thread_data, loader, warm>>

(* zmq_send; on an error the socket is closed and tl_socket reset *)
ZmqSend ==
    /\ zmq.pc = "send"
    /\ \E ok \in BOOLEAN :
         zmq' = IF ok THEN [zmq EXCEPT !.pc = "recv", !.sent = TRUE]
                ELSE [zmq EXCEPT !.pc = "returned", !.closed = @ \cup {zmq.tl_socket},
                                 !.tl_socket = 0]
    /\ UNCHANGED <<searchVars, thread_data, loader, warm>>

(* zmq_msg_recv; an error or the receive timeout closes the socket and resets it *)
ZmqRecv ==
    /\ zmq.pc = "recv"
    /\ \E ok \in BOOLEAN, r \in ZmqResponses :
         zmq' = IF ok THEN [zmq EXCEPT !.pc = "parse", !.received = TRUE, !.response = r]
                ELSE [zmq EXCEPT !.pc = "returned", !.closed = @ \cup {zmq.tl_socket},
                                 !.tl_socket = 0]
    /\ UNCHANGED <<searchVars, thread_data, loader, warm>>

(* ParseFromArray, the dimensions and size tests, the copy to out_embeddings, return *)
ZmqParse ==
    /\ zmq.pc = "parse"
    /\ LET r == zmq.response
           batch_size == r.dimensions[1]
           embedding_dim == r.dimensions[2]
           ok == /\ r.parses
                 /\ Len(r.dimensions) = 2
                 /\ BatchAccepted(batch_size)
                 /\ ExpectedBytesMatch(batch_size, embedding_dim, emb_data_size(r))
       IN  zmq' = IF ok
                  THEN [zmq EXCEPT
                          !.pc = "returned", !.success = TRUE,
                          !.out_embeddings =
                              [i \in 1 .. batch_size |->
                                  [j \in 1 .. embedding_dim |->
                                      r.words[(i - 1) * embedding_dim + j]]]]
                  ELSE [zmq EXCEPT !.pc = "returned"]
    /\ UNCHANGED <<searchVars, thread_data, loader, warm>>

ZmqNext == ZmqCall \/ ZmqConnect \/ ZmqSend \/ ZmqRecv \/ ZmqParse

ZmqSpec == ZmqInit /\ [][ZmqNext]_vars

(* ------------------------------------------- sockets of the threads and the port *)
(* fetch_embeddings_zmq called from several threads for one index whose _zmq_port   *)
(* can be changed by set_zmq_port between the calls. tl_socket is thread_local:     *)
(* each thread has its own. Here zmq holds the port of the index, the threads and   *)
(* every socket made so far with its owner, its endpoint and whether it was closed. *)
MaxPortSets == 1

ZmqPorts == {5555, 5556}

SockIdle == [pc |-> "idle", tl_socket |-> 0, zmq_port |-> 0, fetches |-> 0, held |-> 0,
             created |-> FALSE, sock |-> 0, outcome |-> "none"]

SockInit ==
    /\ InitFrom({ << Index("L2", "ring", {}, FALSE, FALSE, FALSE),
                     Args(<< 2 >>, 1, 1, 1, io_limit_default, FALSE, FilterLabel, FALSE, FALSE,
                          FALSE, FALSE, FALSE, FALSE) >> })
    /\ rsearch = NoRange
    /\ batch = NoBatch
    /\ loader = [pc |-> "none"]
    /\ warm = [pc |-> "none"]
    /\ LayoutIdle
    /\ thread_data = setup_thread_data(NumThreads)
    /\ data = 0
    /\ \E p \in ZmqPorts :
         zmq = [pc |-> "threads", zmq_port |-> p, sets |-> 0,
                threads |-> [t \in 1 .. NumThreads |-> SockIdle],
                sockets |-> << >>, used |-> {}, sent |-> {}]

sockRest == <<searchVars, thread_data, loader, warm>>

(* the socket is left in tl_socket after an error *)
KeepSocket(tl_socket) == tl_socket

(* "zmq_close(tl_socket); tl_socket = nullptr": the value of tl_socket afterwards *)
ResetSocket(tl_socket) == 0

(* the sockets after zmq_close(sock) *)
Closed(sockets, sock) == [sockets EXCEPT ![sock].closed = TRUE]

(* StaticDiskIndex::set_zmq_port *)
SockSetPort ==
    /\ zmq.pc = "threads"
    /\ zmq.sets < MaxPortSets
    /\ \E p \in ZmqPorts : zmq' = [zmq EXCEPT !.zmq_port = p, !.sets = @ + 1]
    /\ UNCHANGED sockRest

(* fetch_embeddings_http(node_ids, embeddings, this->_zmq_port) up to the socket:   *)
(* the port is passed by value, the request is serialised                            *)
SockCall ==
    /\ zmq.pc = "threads"
    /\ \E t \in 1 .. NumThreads, serialized \in BOOLEAN :
         LET th == zmq.threads[t]
         IN  /\ th.pc \in {"idle", "returned"}
             /\ th.fetches < MaxFetches
             /\ zmq' = [zmq EXCEPT !.threads[t] =
                          [th EXCEPT !.pc = IF serialized THEN "connect" ELSE "returned",
                                     !.zmq_port = zmq.zmq_port, !.fetches = @ + 1,
                                     !.held = th.tl_socket, !.created = FALSE, !.sock = 0,
                                     !.outcome = IF serialized THEN "none"
                                                 ELSE "serialize failed"]]
    /\ UNCHANGED sockRest

(* "if (tl_socket == nullptr)": zmq_socket, the timeouts, zmq_connect to             *)
(* tcp://127.0.0.1:zmq_port                                                           *)
SockConnect ==
    /\ zmq.pc = "threads"
    /\ \E t \in 1 .. NumThreads, made, connected \in BOOLEAN :
         LET th == zmq.threads[t]
             sock == Len(zmq.sockets) + 1
             fresh == [owner |-> t, endpoint |-> th.zmq_port, closed |-> FALSE]
         IN  /\ th.pc = "connect"
             /\ zmq' =
                  IF th.tl_socket # 0
                  THEN [zmq EXCEPT !.threads[t].pc = "send",
                                   !.threads[t].sock = th.tl_socket]
                  ELSE IF ~made
                  THEN [zmq EXCEPT !.threads[t].pc = "returned",
                                   !.threads[t].outcome = "socket failed"]
                  ELSE IF ~connected
                  THEN [zmq EXCEPT !.sockets = Closed(Append(@, fresh), sock),
                                   !.threads[t].pc = "returned",
                                   !.threads[t].created = TRUE,
                                   !.threads[t].sock = sock,
                                   !.threads[t].tl_socket = ResetSocket(sock),
                                   !.threads[t].outcome = "connect failed"]
                  ELSE [zmq EXCEPT !.sockets = Append(@, fresh),
                                   !.threads[t].pc = "send",
                                   !.threads[t].created = TRUE,
                                   !.threads[t].sock = sock,
                                   !.threads[t].tl_socket = sock]
    /\ UNCHANGED sockRest

(* zmq_send on tl_socket *)
SockSend ==
    /\ zmq.pc = "threads"
    /\ \E t \in 1 .. NumThreads, ok \in BOOLEAN :
         LET th == zmq.threads[t]
             sock == th.tl_socket
         IN  /\ th.pc = "send"
             /\ zmq' =
                  IF ok
                  THEN [zmq EXCEPT !.threads[t].pc = "recv",
                                   !.used = @ \cup {<< sock, t >>},
                                   !.sent = @ \cup {[thread |-> t, zmq_port |-> th.zmq_port,
                                                     endpoint |-> zmq.sockets[sock].endpoint]}]
                  ELSE [zmq EXCEPT !.sockets = Closed(@, sock),
                                   !.used = @ \cup {<< sock, t >>},
                                   !.threads[t].pc = "returned",
                                   !.threads[t].tl_socket = ResetSocket(sock),
                                   !.threads[t].outcome = "send failed"]
    /\ UNCHANGED sockRest

(* zmq_msg_recv on tl_socket, then the parsing of the reply, which does not touch    *)
(* the socket                                                                         *)
SockRecv ==
    /\ zmq.pc = "threads"
    /\ \E t \in 1 .. NumThreads, ok, well_formed \in BOOLEAN :
         LET th == zmq.threads[t]
             sock == th.tl_socket
         IN  /\ th.pc = "recv"
             /\ (ok \/ well_formed)
             /\ zmq' =
                  IF ok
                  THEN [zmq EXCEPT !.used = @ \cup {<< sock, t >>},
                                   !.threads[t].pc = "returned",
                                   !.threads[t].outcome = IF well_formed THEN "ok"
                                                          ELSE "malformed reply"]
                  ELSE [zmq EXCEPT !.sockets = Closed(@, sock),
                                   !.used = @ \cup {<< sock, t >>},
                                   !.threads[t].pc = "returned",
                                   !.threads[t].tl_socket = ResetSocket(sock),
                                   !.threads[t].outcome = "recv failed"]
    /\ UNCHANGED sockRest

SockNext == SockSetPort \/ SockCall \/ SockConnect \/ SockSend \/ SockRecv

SockSpec == SockInit /\ [][SockNext]_vars

(* ------------------------------------------------- sector reads of a query *)
(* The read requests one hop of cached_beam_search builds, what the reader leaves in   *)
(* the scratch sector buffer, where each node of the beam is decoded from, and the     *)
(* read requests of the reorder pass.  Addresses are byte offsets into sector_scratch. *)
SectPartSize == 2

(* the index files: node length and nodes per sector as the metadata gives them; in    *)
(* partition mode the metadata block is skipped and _nnodes_per_sector keeps its 0     *)
SectLayouts ==
    {[max_node_len |-> m,
      disk_bytes_per_point |-> m - SECTOR_LEN \div 4,
      nnodes_per_sector |-> IF p \/ m > SECTOR_LEN THEN 0 ELSE SECTOR_LEN \div m,
      use_partition |-> p] : m \in {SECTOR_LEN \div 2, SECTOR_LEN, 2 * SECTOR_LEN},
                             p \in BOOLEAN}

SectBeams == {1, 2, 3, MAX_N_SECTOR_READS \div 2 + 1, MAX_N_SECTOR_READS,
              MAX_N_SECTOR_READS + 1, 2 * MAX_N_SECTOR_READS, 2 * MAX_N_SECTOR_READS + 1}

(* the uncached nodes of a beam: at most beam_width ids *)
SectFrontiers(bw) ==
    {[i \in 1 .. n |-> first + i - 1] : n \in {0, 1, 2, 3, bw} \cap (0 .. bw), first \in {0, 1}}

SectKs == {1, MAX_N_SECTOR_READS \div FULL_PRECISION_REORDER_MULTIPLIER,
           MAX_N_SECTOR_READS \div FULL_PRECISION_REORDER_MULTIPLIER + 1}

(* the partition tables of read_partition_info *)
id2partition(id) == id \div SectPartSize

graph_partitions(p) == [j \in 1 .. SectPartSize |-> p * SectPartSize + j - 1]

graph_node_len(lay) == lay.max_node_len - lay.disk_bytes_per_point

get_node_sector(lay, node_id) ==
    1 + (IF lay.nnodes_per_sector > 0 THEN node_id \div lay.nnodes_per_sector
         ELSE node_id * DIV_ROUND_UP(lay.max_node_len, SECTOR_LEN))

offset_to_node(lay, sector_buf, node_id) ==
    sector_buf + (IF lay.nnodes_per_sector = 0 THEN 0
                  ELSE (node_id % lay.nnodes_per_sector) * lay.max_node_len)

num_sectors_per_node(lay) ==
    IF lay.nnodes_per_sector > 0 THEN 1 ELSE DIV_ROUND_UP(lay.max_node_len, SECTOR_LEN)

(* the beam-width check at the head of cached_beam_search *)
BeamCheck(lay, bw) == ~(bw > DIV_ROUND_UP(lay.max_node_len, SECTOR_LEN) * MAX_N_SECTOR_READS)

(* the sector of the reorder data of a point, one vector per sector after the graph *)
VECTOR_SECTOR_NO(id) ==
    LET nvecs_per_sector == 1
        reorder_data_start_sector == 1 + NumPoints
    IN  id \div nvecs_per_sector + reorder_data_start_sector

AlignedRead(offset, len, buf) == [offset |-> offset, len |-> len, buf |-> buf]

(* fnhood.second of the i-th frontier node *)
NhoodBuf(lay, i) == num_sectors_per_node(lay) * (i - 1) * SECTOR_LEN

(* the buffer of the i-th partition read *)
PartitionBuf(i) == (i - 1) * SECTOR_LEN

(* what a byte of the scratch buffer holds that no read of this query filled *)
Stale == [file |-> "stale", pos |-> 0]

(* the reader: every request that does not fail fills its buffer from its file, a     *)
(* later request of the batch over an earlier one                                      *)
ReadAll(reqs, failed, file) ==
    LET first(i) == reqs[i].buf \div SECTOR_LEN
        last(i) == (reqs[i].buf + reqs[i].len) \div SECTOR_LEN - 1
        done == {i \in 1 .. Len(reqs) : i \notin failed}
        writers(slot) == {i \in done : first(i) <= slot /\ slot <= last(i)}
        winner(slot) == CHOOSE i \in writers(slot) : \A x \in writers(slot) : x <= i
    IN  [slot \in UNION {first(i) .. last(i) : i \in done} |->
            [file |-> file,
             sector |-> reqs[winner(slot)].offset \div SECTOR_LEN + slot - first(winner(slot))]]

(* the file position whose bytes stand at an address of the scratch buffer *)
ContentAt(scratch, addr) ==
    LET slot == addr \div SECTOR_LEN
    IN  IF slot \in DOMAIN scratch
        THEN [file |-> scratch[slot].file,
              pos |-> scratch[slot].sector * SECTOR_LEN + (addr % SECTOR_LEN)]
        ELSE Stale

(* the requests whose read the reader flags as failed *)
SectFailures(n) == {{}} \cup {{i} : i \in {1, n} \cap (1 .. n)}

NoSect == [pc |-> "call", frontier_nhoods |-> << >>, reqs |-> << >>, node_offsets |-> << >>,
           scratch |-> << >>, failed |-> {}, full_retset |-> << >>, decoded |-> << >>,
           todo |-> 0]

SectInit ==
    /\ InitFrom({ << Index("L2", "ring", {}, FALSE, FALSE, FALSE),
                     Args(<< 2 >>, 1, 1, 1, io_limit_default, FALSE, FilterLabel, FALSE, FALSE,
                          FALSE, FALSE, FALSE, FALSE) >> })
    /\ rsearch = NoRange
    /\ batch = NoBatch
    /\ loader = [pc |-> "none"]
    /\ warm = [pc |-> "none"]
    /\ zmq = [pc |-> "none"]
    /\ prune = [pc |-> "none"]
    /\ thread_data = setup_thread_data(NumThreads)
    /\ data = 0
    /\ \E lay \in SectLayouts, bw \in SectBeams :
         \E fr \in SectFrontiers(bw) :
            sect = NoSect @@ [layout |-> lay, beam_width |-> bw, frontier |-> fr]

sectRest == <<index, params, pc, retset, visited, full_retset, node_distances, num_ios, stats,
              frontier_nhoods, cached_nhoods, batched_node_ids, query_scratch, out, calls,
              hist, run, prev, rsearch, batch, data, thread_data, loader, warm, zmq, prune>>

(* the beam-width check *)
SectCheck ==
    /\ sect.pc = "call"
    /\ sect' = [sect EXCEPT !.pc = IF BeamCheck(sect.layout, sect.beam_width)
                                   THEN "frontier" ELSE "thrown"]
    /\ UNCHANGED sectRest

(* "read nhoods of frontier ids": one buffer and, outside partition mode, one read     *)
(* request per node of the beam                                                        *)
SectFrontier ==
    /\ sect.pc = "frontier"
    /\ LET lay == sect.layout
           n == Len(sect.frontier)
           nhoods == [i \in 1 .. n |-> [id |-> sect.frontier[i], buf |-> NhoodBuf(lay, i)]]
       IN  sect' = [sect EXCEPT
                       !.pc = IF lay.use_partition THEN "partition" ELSE "read",
                       !.frontier_nhoods = nhoods,
                       !.reqs = IF lay.use_partition THEN << >>
                                ELSE [i \in 1 .. n |->
                                        AlignedRead(get_node_sector(lay, nhoods[i].id) * SECTOR_LEN,
                                                    num_sectors_per_node(lay) * SECTOR_LEN,
                                                    nhoods[i].buf)]]
    /\ UNCHANGED sectRest

(* partition mode: the position of each node in its partition and one read of the      *)
(* partition's sector of the graph file per node                                       *)
SectPartition ==
    /\ sect.pc = "partition"
    /\ LET n == Len(sect.frontier_nhoods)
           part_list(i) == graph_partitions(id2partition(sect.frontier_nhoods[i].id))
           j(i) == CHOOSE x \in 0 .. (SectPartSize - 1) :
                       part_list(i)[x + 1] = sect.frontier_nhoods[i].id
       IN  sect' = [sect EXCEPT
                       !.pc = "read",
                       !.node_offsets = [i \in 1 .. n |-> j(i)],
                       !.reqs = [i \in 1 .. n |->
                                   AlignedRead((id2partition(sect.frontier_nhoods[i].id) + 1)
                                                   * SECTOR_LEN,
                                               SECTOR_LEN, PartitionBuf(i))]]
    /\ UNCHANGED sectRest

(* reader->read or graph_reader->read: the outcome of the requests is not looked at *)
SectRead ==
    /\ sect.pc = "read"
    /\ \E failed \in SectFailures(Len(sect.reqs)) :
         sect' = [sect EXCEPT
                     !.pc = "process",
                     !.failed = failed,
                     !.todo = 1,
                     !.scratch = ReadAll(sect.reqs, failed,
                                         IF sect.layout.use_partition THEN "graph"
                                         ELSE "index")]
    /\ UNCHANGED sectRest

(* "process each frontier nhood", one node: it is pushed to full_retset and its        *)
(* adjacency is decoded from the buffer fnhood.second names                            *)
SectProcess ==
    /\ sect.pc = "process"
    /\ sect.todo <= Len(sect.frontier_nhoods)
    /\ LET lay == sect.layout
           i == sect.todo
           fn == sect.frontier_nhoods[i]
           addr == IF lay.use_partition
                   THEN fn.buf + sect.node_offsets[i] * graph_node_len(lay)
                   ELSE offset_to_node(lay, fn.buf, fn.id) + lay.disk_bytes_per_point
       IN  sect' = [sect EXCEPT
                       !.todo = i + 1,
                       !.full_retset = Append(@, fn.id),
                       !.decoded = Append(@, [id |-> fn.id, req |-> i,
                                              from |-> ContentAt(sect.scratch, addr)])]
    /\ UNCHANGED sectRest

(* the reorder pass: full_retset cut to k * FULL_PRECISION_REORDER_MULTIPLIER entries, *)
(* one sector read per entry left                                                      *)
SectReorder ==
    /\ sect.pc = "process"
    /\ sect.todo > Len(sect.frontier_nhoods)
    /\ \E k_search \in SectKs, expanded \in {0, 1, MAX_N_SECTOR_READS, MAX_N_SECTOR_READS + 1} :
         LET cap == k_search * FULL_PRECISION_REORDER_MULTIPLIER
             n == IF expanded > cap THEN cap ELSE expanded
         IN  sect' = [sect EXCEPT
                         !.pc = "reorder",
                         !.reqs = [i \in 1 .. n |->
                                     AlignedRead(VECTOR_SECTOR_NO(i - 1) * SECTOR_LEN, SECTOR_LEN,
                                                 (i - 1) * SECTOR_LEN)]]
    /\ UNCHANGED sectRest

SectNext ==
    \/ SectCheck
    \/ SectFrontier
    \/ SectPartition
    \/ SectRead
    \/ SectProcess
    \/ SectReorder

SectSpec == SectInit /\ [][SectNext]_vars

(* ----------------------------------------------- pruning of neighbour lists *)
(* The neighbour lists of the nodes one query expands, with lists long enough for      *)
(* prune_node_nbrs to act on: which list each expansion uses, and what every call of   *)
(* prune_node_nbrs is given and leaves.                                                *)
MaxExpansions == 2

PruneIds == 0 .. 13

PruneLists == {[i \in 1 .. n |-> first + i - 1] : n \in {1, 10, 11, 12}, first \in {0, 2}}

(* PQ distances of the ids to the query *)
PrunePQs == {[id \in PruneIds |-> (id * 3) % 5], [id \in PruneIds |-> id % 2]}

PruneInit ==
    /\ InitFrom({ << Index("L2", "ring", {}, FALSE, FALSE, FALSE),
                     Args(<< 2 >>, 1, 1, 1, io_limit_default, FALSE, FilterLabel, FALSE, FALSE,
                          FALSE, FALSE, FALSE, FALSE) >> })
    /\ rsearch = NoRange
    /\ batch = NoBatch
    /\ loader = [pc |-> "none"]
    /\ warm = [pc |-> "none"]
    /\ zmq = [pc |-> "none"]
    /\ sect = [pc |-> "none"]
    /\ thread_data = setup_thread_data(NumThreads)
    /\ data = 0
    /\ \E rc \in BOOLEAN, gp \in BOOLEAN, bt \in BOOLEAN, pct \in {0, 10, 50},
          pq \in PrunePQs, vis \in {{}, {3, 4}} :
         prune = [pc |-> "hop", recompute |-> rc, global_pruning |-> gp,
                  batch_recompute |-> bt, keep_pct |-> 100 - pct, pq |-> pq, visited |-> vis,
                  aq |-> << >>, batched_node_ids |-> << >>, expanded |-> 0,
                  pruned |-> << >>, used |-> << >>]

pruneRest == <<index, params, pc, retset, visited, full_retset, node_distances, num_ios, stats,
               frontier_nhoods, cached_nhoods, batched_node_ids, query_scratch, out, calls,
               hist, run, prev, rsearch, batch, data, thread_data, loader, warm, zmq, sect>>

PruneOf(ids) ==
    PruneCall(ids, prune.pq, prune.aq, prune.visited, prune.recompute, prune.global_pruning,
              prune.keep_pct)

(* a node served from the cache: its list goes to compute_dists as it is *)
PruneCached ==
    /\ prune.pc = "hop"
    /\ prune.expanded < MaxExpansions
    /\ \E node_nbrs \in PruneLists :
         prune' = [prune EXCEPT
                      !.expanded = @ + 1,
                      !.used = Append(@, [place |-> "cache", given |-> node_nbrs,
                                          used |-> node_nbrs])]
    /\ UNCHANGED pruneRest

(* a node read from disk: its list is pruned and used, or joins the batch as it is *)
PruneDisk ==
    /\ prune.pc = "hop"
    /\ prune.expanded < MaxExpansions
    /\ \E node_nbrs \in PruneLists :
         IF prune.batch_recompute
         THEN prune' = [prune EXCEPT
                           !.expanded = @ + 1,
                           !.batched_node_ids = @ \o node_nbrs]
         ELSE LET r == PruneOf(node_nbrs)
              IN  prune' = [prune EXCEPT
                               !.expanded = @ + 1,
                               !.aq = r.aq,
                               !.pruned = Append(@, [given |-> node_nbrs, left |-> r.left]),
                               !.used = Append(@, [place |-> "disk", given |-> node_nbrs,
                                                   used |-> r.left])]
    /\ UNCHANGED pruneRest

(* the end of a hop: with batch_recompute the batched list is pruned and used *)
PruneEndHop ==
    /\ prune.pc = "hop"
    /\ prune.expanded > 0
    /\ IF prune.batch_recompute
       THEN LET r == PruneOf(prune.batched_node_ids)
            IN  prune' = [prune EXCEPT
                             !.pc = "loop",
                             !.aq = r.aq,
                             !.batched_node_ids = << >>,
                             !.pruned = Append(@, [given |-> prune.batched_node_ids,
                                                   left |-> r.left]),
                             !.used = Append(@, [place |-> "batch",
                                                 given |-> prune.batched_node_ids,
                                                 used |-> r.left])]
       ELSE prune' = [prune EXCEPT !.pc = "loop"]
    /\ UNCHANGED pruneRest

PruneNext ==
    \/ PruneCached
    \/ PruneDisk
    \/ PruneEndHop

PruneSpec == PruneInit /\ [][PruneNext]_vars

(* ------------------------------------------------------------- read_nodes *)
(* read_nodes as its two callers use it: load_cache_list hands in a coordinate and   *)
(* an adjacency buffer for each node, use_medoids_data_as_centroids a coordinate     *)
(* buffer and a null adjacency buffer. Here sect holds the call; a buffer holds      *)
(* "unset" (what the caller put there), the id of the node whose data was copied    *)
(* into it, or "stale" (bytes of a read buffer that no read filled).                 *)
MaxNodesRead == 2

(* what a buffer holds *)
UnsetBuf == [kind |-> "unset", id |-> 0]
NullBuf == [kind |-> "nullptr", id |-> 0]
StaleBuf == [kind |-> "stale", id |-> 0]
DataOf(node_id) == [kind |-> "node", id |-> node_id]

NodeLists == UNION {[1 .. n -> Nodes] : n \in 1 .. MaxNodesRead}

NodesInit ==
    /\ InitFrom({ << Index("L2", "ring", {}, FALSE, FALSE, FALSE),
                     Args(<< 2 >>, 1, 1, 1, io_limit_default, FALSE, FilterLabel, FALSE, FALSE,
                          FALSE, FALSE, FALSE, FALSE) >> })
    /\ rsearch = NoRange
    /\ batch = NoBatch
    /\ loader = [pc |-> "none"]
    /\ warm = [pc |-> "none"]
    /\ zmq = [pc |-> "none"]
    /\ prune = [pc |-> "none"]
    /\ thread_data = setup_thread_data(NumThreads)
    /\ data = 0
    /\ \E up \in BOOLEAN, ids \in NodeLists,
          caller \in {"load_cache_list", "use_medoids_data_as_centroids"} :
         sect = [pc |-> "call", use_partition |-> up, caller |-> caller, node_ids |-> ids,
                 coord_buffers |-> [i \in 1 .. Len(ids) |-> UnsetBuf],
                 nbr_buffers |-> [i \in 1 .. Len(ids) |->
                                     IF caller = "load_cache_list" THEN UnsetBuf ELSE NullBuf],
                 retval |-> << >>, stored |-> {}]

(* what a memcpy out of a read buffer delivers: the data of the node when the read   *)
(* filled the buffer, else what the fresh buffer held                                *)
Copied(node_id, filled) == IF filled THEN DataOf(node_id) ELSE StaleBuf

(* the default branch: one read per node from the index file, then the copies. The   *)
(* test of the request status is compiled for _WINDOWS with USE_BING_INFRA only      *)
ReadNodesDefault ==
    /\ sect.pc = "call"
    /\ ~sect.use_partition
    /\ \E failed \in SectFailures(Len(sect.node_ids)) :
         sect' = [sect EXCEPT
                    !.pc = "returned",
                    !.retval = [i \in 1 .. Len(sect.node_ids) |-> TRUE],
                    !.coord_buffers = [i \in 1 .. Len(sect.node_ids) |->
                                          Copied(sect.node_ids[i], i \notin failed)],
                    !.nbr_buffers = [i \in 1 .. Len(sect.node_ids) |->
                                        IF sect.nbr_buffers[i] = NullBuf THEN NullBuf
                                        ELSE Copied(sect.node_ids[i], i \notin failed)]]
    /\ UNCHANGED sectRest

(* the partition branch: the nodes with an adjacency buffer are grouped by partition, *)
(* each partition sector is read from the graph file, and the adjacency list of each *)
(* node is copied when its count fits the sector (a count taken from a sector that   *)
(* was not filled may or may not fit); coordinate buffers are not written            *)
ReadNodesPartition ==
    /\ sect.pc = "call"
    /\ sect.use_partition
    /\ LET n == Len(sect.node_ids)
           asked == {i \in 1 .. n : sect.nbr_buffers[i] # NullBuf}
           parts == {id2partition(sect.node_ids[i]) : i \in asked}
       IN  \E failed \in SUBSET parts, fits \in [1 .. n -> BOOLEAN] :
             /\ \A i \in 1 .. n :
                   (i \notin asked \/ id2partition(sect.node_ids[i]) \notin failed) => fits[i]
             /\ sect' = [sect EXCEPT
                    !.pc = "returned",
                    !.retval = [i \in 1 .. n |-> fits[i]],
                    !.nbr_buffers = [i \in 1 .. n |->
                        IF i \notin asked THEN NullBuf
                        ELSE IF ~fits[i] THEN sect.nbr_buffers[i]
                        ELSE Copied(sect.node_ids[i],
                                    id2partition(sect.node_ids[i]) \notin failed)]]
    /\ UNCHANGED sectRest

(* the caller: load_cache_list inserts the buffers of every node whose status is     *)
(* true into the two caches, use_medoids_data_as_centroids copies the coordinates    *)
(* of every medoid to the centroid data and throws at the first status false         *)
ReadNodesStore ==
    /\ sect.pc = "returned"
    /\ LET n == Len(sect.node_ids)
           entry(i) == [node |-> sect.node_ids[i], coords |-> sect.coord_buffers[i],
                        nbrs |-> sect.nbr_buffers[i]]
           upto == IF sect.caller = "load_cache_list" \/ \A i \in 1 .. n : sect.retval[i]
                   THEN n
                   ELSE (CHOOSE i \in 1 .. n :
                            ~sect.retval[i] /\ \A j \in 1 .. (i - 1) : sect.retval[j]) - 1
       IN  sect' = [sect EXCEPT
                      !.pc = IF upto < n THEN "thrown" ELSE "stored",
                      !.stored = {entry(i) : i \in {j \in 1 .. upto : sect.retval[j]}}]
    /\ UNCHANGED sectRest

NodesNext == ReadNodesDefault \/ ReadNodesPartition \/ ReadNodesStore

NodesSpec == NodesInit /\ [][NodesNext]_vars

(* ------------------------------------------------------------------ claims *)
Returned == pc = "done" /\ out.written

(* output positions read from entries that full_retset holds *)
BackedPositions == 1 .. (IF Len(full_retset) < params.k_search THEN Len(full_retset)
                         ELSE params.k_search)

Ids(s) == {s[i].id : i \in 1 .. Len(s)}

(* C1, as stated: with io_limit = m and an accepted beam_width >= 1, the sector reads  *)
(* issued during traversal, and the n_ios added to the stats, never exceed m           *)
C1_ReadsNeverExceedLimit ==
    (params.beam_width >= 1 /\ pc \in {"loop", "hop", "post"})
        => (num_ios <= params.io_limit /\ stats.n_ios <= params.io_limit)

(* C1, as the code has it: the budget is tested once per iteration, before a beam of  *)
(* up to beam_width reads is issued: no read with io_limit = 0, otherwise fewer than   *)
(* io_limit + beam_width reads; n_ios counts these reads and, after the reorder pass,  *)
(* one more per reordered entry                                                        *)
C1_ReadsWithinLimitPlusBeam ==
    /\ (params.io_limit = 0 => num_ios = 0)
    /\ (num_ios > 0 => num_ios - params.beam_width < params.io_limit)
    /\ stats.n_ios = num_ios + (IF pc = "done" /\ params.use_reorder_data
                                THEN Len(full_retset) ELSE 0)

(* a traversal that ended above its budget *)
C1_Witness ==
    /\ pc = "post"
    /\ params.beam_width >= 2
    /\ params.io_limit <= MaxIoLimit
    /\ num_ios > params.io_limit
    /\ stats.n_ios = num_ios

(* C2: the k ids written to the output buffer are pairwise distinct *)
C2_OutputIdsDistinct ==
    Returned => \A i, j \in 1 .. params.k_search :
                    i # j => out.indices[i] # out.indices[j]

(* C3: within one call no node id is pushed to full_retset more than once, also after *)
(* the node left the bounded frontier and was met again as a neighbour                 *)
C3_ExpandedOnce ==
    \A i, j \in 1 .. Len(full_retset) : i # j => full_retset[i].id # full_retset[j].id

(* an expanded node that the frontier dropped is met again as a neighbour of the node *)
(* expanded last                                                                       *)
C3_Witness ==
    /\ pc = "loop"
    /\ Len(full_retset) >= 2
    /\ \E i \in 1 .. (Len(full_retset) - 1) :
         /\ full_retset[i].id \notin Ids(retset)
         /\ \E m \in 1 .. Len(Nbrs(full_retset[Len(full_retset)].id)) :
              Nbrs(full_retset[Len(full_retset)].id)[m] = full_retset[i].id

C5_LoopTerminates == (pc = "loop") ~> (pc = "post")

(* C6: every id a filtered search writes belongs to a node that carries the filter    *)
(* label or the universal label (a dummy's real id stands for the dummy)               *)
C6_OutputsCarryLabel ==
    (Returned /\ params.use_filter) =>
        \A i \in 1 .. params.k_search :
            \E n \in Nodes :
                /\ OutputId(n) = out.indices[i]
                /\ \/ point_has_label(n, params.filter_label)
                   \/ index.use_universal_label /\ point_has_label(n, UniversalLabel)

(* C7: a failed neighbour fetch yields the PQ distance for every id of the call, no   *)
(* error is raised, and the call ends with all k output positions written              *)
C7_FailedFetchFallsBackToPQ ==
    /\ \A c \in 1 .. Len(calls) :
         (calls[c].fetched /\ calls[c].failed) =>
             (calls[c].dists = pq_dist_lookup(calls[c].ids) /\ pc # "error")
    /\ (params.recompute /\ ~params.deferred /\ hist.bad > 0) =>
         /\ pc # "error"
         /\ (pc = "done" => out.written /\ \A i \in 1 .. params.k_search :
                                               out.indices[i] # Unwritten)

(* a search with dedup that returned although a neighbour fetch of it had failed       *)
C7_Witness ==
    /\ Returned
    /\ params.recompute /\ params.dedup /\ ~params.deferred
    /\ hist.bad > 0

(* C8: a deferred search that returns has overwritten the distance of every            *)
(* full_retset entry by the exact distance of that entry's own embedding               *)
C8_DeferredOverwritesAll ==
    (Returned /\ params.deferred) =>
        \A i \in 1 .. Len(full_retset) :
            full_retset[i].distance = ExactDist(preprocess_one(RawBase(full_retset[i].id)))

(* two calls that differ in dedup_node_dis only, both answered on every fetch and      *)
(* both with k expanded nodes                                                          *)
DedupPair ==
    /\ Returned
    /\ prev.valid
    /\ prev.params = [params EXCEPT !.dedup = FALSE]
    /\ params.dedup
    /\ hist.bad = 0 /\ prev.hist.bad = 0
    /\ Len(full_retset) >= params.k_search
    /\ Len(prev.full_retset) >= params.k_search

(* C9: with dedup_node_dis on, the same ids with the same distances as with it off *)
C9_DedupSameResults ==
    DedupPair =>
        {<< out.indices[i], out.distances[i] >> : i \in 1 .. params.k_search}
            = {<< prev.out.indices[i], prev.out.distances[i] >> : i \in 1 .. params.k_search}

(* a deferred call followed by the same call with neighbour recomputation instead,     *)
(* both answered with the true vectors on every fetch                                  *)
DeferredPair ==
    /\ Returned
    /\ prev.valid
    /\ prev.params.deferred
    /\ params = [prev.params EXCEPT !.deferred = FALSE, !.recompute = TRUE]
    /\ hist.bad = 0 /\ prev.hist.bad = 0

C11_RangePrefixOfRound ==
    (rsearch.pc = "returned" /\ Len(full_retset) >= params.k_search) =>
        /\ Len(rsearch.indices) = rsearch.res_count
        /\ Len(rsearch.distances) = rsearch.res_count
        /\ \A i \in 1 .. rsearch.res_count :
             /\ rsearch.distances[i] <= rsearch.args.range
             /\ rsearch.distances[i] = out.distances[i]
             /\ rsearch.indices[i] = out.indices[i]
        /\ \A i \in 1 .. params.k_search :
             out.distances[i] <= rsearch.args.range => i <= rsearch.res_count

(* C12: range_search terminates for every min_l_search, max_l_search and              *)
(* min_beam_width (stated for min_beam_width >= 1, where every round's beam width is  *)
(* at least 1)                                                                         *)
C12_RangeTerminates ==
    (rsearch.args.min_beam_width >= 1) => <>(rsearch.pc = "returned")

(* nothing was read or fetched in the running call *)
NothingIssued ==
    /\ num_ios = 0
    /\ stats = NoStats
    /\ calls = << >>
    /\ hist = NoHist
    /\ node_distances = EmptyMemo
    /\ full_retset = << >>

(* C13: a call with a beam_width above ceil(max_node_len / SECTOR_LEN) *              *)
(* MAX_N_SECTOR_READS, and a filtered call whose label has no medoid list, end with   *)
(* an error, and no sector read or remote fetch was issued before                     *)
C13_RejectedBeforeAnyRead ==
    (rsearch.pc = "none") =>
        /\ (params.beam_width > DIV_ROUND_UP(max_node_len, SECTOR_LEN) * MAX_N_SECTOR_READS
                /\ pc # "idle")
             => (pc = "error" /\ NothingIssued)
        /\ (params.use_filter /\ params.filter_label \notin DOMAIN filter_to_medoid_ids
                /\ pc \notin {"idle", "seed"})
             => (pc = "error" /\ NothingIssued)

(* a filtered call that asked for remote embeddings and was rejected for its label *)
C13_Witness ==
    /\ pc = "error"
    /\ params.use_filter /\ params.recompute
    /\ params.filter_label = NoMedoidLabel
    /\ params.beam_width = 1

(* the scratch object a call of the other batch worker holds, 0 for none *)
OtherData == IF batch.pc = "none" THEN 0 ELSE batch.other.data

(* C14: a call of cached_beam_search that has ended, with results, by the early      *)
(* return of the deferred path or by an exception, holds no scratch object; a        *)
(* borrowed scratch object is not in the pool; when no call is running the pool      *)
(* holds each of the num_threads scratch objects exactly once.                       *)
C14_ScratchReturnedOnEveryExit ==
    /\ pc \in {"done", "error"} => data = 0
    /\ \A i \in 1 .. Len(thread_data) : thread_data[i] \notin {data, OtherData}
    /\ (data = 0 /\ OtherData = 0) =>
          /\ Len(thread_data) = NumThreads
          /\ \A id \in 1 .. NumThreads : \E i \in 1 .. NumThreads : thread_data[i] = id

(* a call that borrowed a scratch object and ended by the exception of a failed     *)
(* deferred fetch                                                                    *)
C14_Witness ==
    /\ pc = "error"
    /\ params.deferred
    /\ hist.bad > 0
    /\ BeamWidthAccepted(params.beam_width)
    /\ Len(thread_data) = NumThreads

(* C15: rows of one batch_search that this worker wrote for the same query vector    *)
(* hold the same ids and distances, as they do when every row equals the result of   *)
(* a single search of its query with the same knn, complexity and beam width.        *)
C15_BatchRowsAsSingleSearch ==
    batch.pc = "returned" =>
        \A i, j \in 1 .. MaxQueries :
            (/\ batch.rows[i].by = "this"
             /\ batch.rows[j].by = "this"
             /\ batch.args.queries[i] = batch.args.queries[j])
            => batch.rows[i] = batch.rows[j]

(* C16: load does not return 0 when a file it needs does not open (in partition     *)
(* mode the partition file and the graph file among them), when the PQ centroid      *)
(* count is not 256, when the point counts of the PQ data and of the disk header     *)
(* differ, when the graph degree exceeds MAX_GRAPH_DEGREE, when the chunk count      *)
(* exceeds MAX_PQ_CHUNKS, or when reorder data comes without disk PQ.                *)
C16_LoadFailsOnErrorCondition ==
    LET f == loader.files
    IN  (loader.pc = "end" /\ loader.result = "0") =>
            /\ f.pq_files_open
            /\ f.use_partition \/ f.index_open
            /\ f.use_partition => (f.partition_open /\ f.graph_open)
            /\ f.pq_file_num_centroids = 256
            /\ f.disk_nnodes = NumPoints
            /\ f.max_degree <= MAX_GRAPH_DEGREE
            /\ f.n_chunks <= MAX_PQ_CHUNKS
            /\ f.reorder_data_exists => f.disk_pq_pivots

(* C17, as stated: a finished warmup, in either mode, has read at most               *)
(* num_nodes_to_cache distinct nodes from disk.                                      *)
C17_WarmupReadsWithinRequest ==
    warm.pc = "done" => Cardinality(warm.read) <= warm.args.num_nodes_to_cache

(* C17, amended: load_cache_list reads at most num_nodes_to_cache distinct nodes in   *)
(* either mode; in BFS mode these are all the nodes the warmup reads; in sample-query *)
(* mode with num_nodes_to_cache >= N no search runs and nothing else is read.        *)
C17_CacheListReadsWithinRequest ==
    warm.pc = "done" =>
        /\ Cardinality(warm.list_read) <= warm.args.num_nodes_to_cache
        /\ index.cached = warm.list_read
        /\ (warm.args.mode = "bfs" \/ warm.args.num_nodes_to_cache >= warm.args.num_points)
              => warm.read = warm.list_read

(* a sample-query warmup that searched and then read as many nodes as requested *)
C17_Witness ==
    /\ warm.pc = "done"
    /\ warm.args.mode = "sample"
    /\ warm.next > 1
    /\ warm.args.num_nodes_to_cache > 0
    /\ Cardinality(warm.list_read) = warm.args.num_nodes_to_cache

RECURSIVE ReachableFrom(_, _, _)
ReachableFrom(graph, n, S) ==
    LET T == S \cup UNION {{NbrsOf(graph, n, x)[k] : k \in 1 .. Len(NbrsOf(graph, n, x))} :
                             x \in S}
    IN  IF T = S THEN S ELSE ReachableFrom(graph, n, T)

BfsListed == warm.pc \in {"load", "done"} /\ warm.args.mode = "bfs"

C19_FailedFetchResetsSocket ==
    (zmq.pc = "returned" /\ ~zmq.success) => zmq.tl_socket = 0

(* C20: a fetch succeeds exactly when the request was sent, a reply was received and *)
(* parses, dimensions has two entries [batch, dim] with batch >= 0, and the blob has *)
(* batch * dim * 4 bytes; on success out_embeddings holds batch vectors of dim       *)
(* floats in the order of the reply; on failure it holds nothing.                    *)
C20_FetchSucceedsIffWellFormed ==
    zmq.pc = "returned" =>
        LET r == zmq.response
        IN  /\ zmq.success <=>
                  (/\ zmq.sent
                   /\ zmq.received
                   /\ r.parses
                   /\ Len(r.dimensions) = 2
                   /\ r.dimensions[1] >= 0
                   /\ 4 * Len(r.words) + r.extra = r.dimensions[1] * r.dimensions[2] * 4)
            /\ zmq.success =>
                  /\ Len(zmq.out_embeddings) = r.dimensions[1]
                  /\ \A i \in 1 .. Len(zmq.out_embeddings) :
                        /\ Len(zmq.out_embeddings[i]) = r.dimensions[2]
                        /\ \A j \in 1 .. r.dimensions[2] :
                              zmq.out_embeddings[i][j] = r.words[(i - 1) * r.dimensions[2] + j]
            /\ ~zmq.success => zmq.out_embeddings = << >>

(* a successful fetch of two vectors of two floats over a reused socket *)
C20_Witness ==
    /\ zmq.pc = "returned"
    /\ zmq.success
    /\ zmq.fetches = 2
    /\ zmq.sockets = 1
    /\ zmq.out_embeddings = << << 7, 8 >>, << 9, 10 >> >>

(* C21: with recompute_neighbor_embeddings and dedup_node_dis on, every entry         *)
(* id -> d of the node-distance memo holds the exact distance of node id itself,      *)
(* computed from the embedding fetched for id.                                        *)
C21_MemoHoldsOwnDistance ==
    (params.recompute /\ params.dedup /\ pc \in {"loop", "hop", "post", "done"}) =>
        \A id \in DOMAIN node_distances :
            /\ id \in Nodes
            /\ node_distances[id] = ExactDist(preprocess_one(RawBase(id)))

(* C22: at every point of a query, every id held in the frontier (retset) is a        *)
(* member of the visited set, from the seeding with the medoid on and after every     *)
(* neighbour insertion on the cached, the disk-read and the batched path.             *)
C22_FrontierWithinVisited ==
    \A i \in 1 .. Len(retset) : retset[i].id \in visited

(* a hop of a batched query that expanded a cached and a read node and left two       *)
(* candidates in the frontier                                                          *)
C22_Witness ==
    /\ pc = "loop"
    /\ params.batch_recompute
    /\ stats.n_cache_hits >= 1
    /\ stats.n_ios >= 1
    /\ Len(retset) >= 2

(* C23: every id written to the output buffer is the id (or the real id of the dummy) *)
(* of a node pushed to full_retset during this same call; when fewer than k nodes     *)
(* were expanded no output entry comes from outside this query's full_retset.         *)
C23_OutputsFromThisQuery ==
    Returned => \A i \in 1 .. params.k_search :
                    \E j \in 1 .. Len(full_retset) :
                        out.indices[i] = OutputId(full_retset[j].id)

(* C24: every buffer handed to a batched sector read, during traversal and during the *)
(* reorder rerank, lies inside the scratch sector buffer of MAX_N_SECTOR_READS * 4096 *)
(* bytes, and the buffers of one batch do not overlap, for every accepted beam_width, *)
(* for packed and multi-sector layouts and for every k.                               *)
C24_ReadBuffersInsideScratch ==
    sect.pc # "none" =>
        /\ \A i \in 1 .. Len(sect.reqs) :
             sect.reqs[i].buf + sect.reqs[i].len <= MAX_N_SECTOR_READS * SECTOR_LEN
        /\ \A i, j \in 1 .. Len(sect.reqs) :
             i < j => \/ sect.reqs[i].buf + sect.reqs[i].len <= sect.reqs[j].buf
                      \/ sect.reqs[j].buf + sect.reqs[j].len <= sect.reqs[i].buf

(* C25: in partition mode the adjacency of every expanded node is decoded from record *)
(* j of sector id2partition[id] + 1 of the graph file, j the index of id in its       *)
(* partition and records graph_node_len bytes apart: the buffer the record is decoded *)
(* from is the buffer the node's partition sector was read into, for every            *)
(* max_node_len and every position of the node in the beam.                           *)
C25_PartitionRecordDecoded ==
    (sect.pc # "none" /\ sect.layout.use_partition) =>
        \A d \in 1 .. Len(sect.decoded) :
            LET id == sect.decoded[d].id
            IN  sect.decoded[d].req \notin sect.failed =>
                    sect.decoded[d].from =
                        [file |-> "graph",
                         pos |-> (id2partition(id) + 1) * SECTOR_LEN
                                     + (id % SectPartSize) * graph_node_len(sect.layout)]

(* C30: when the sector read of one frontier node fails, that node is not pushed to   *)
(* full_retset and its neighbours are not decoded for insertion, while the other      *)
(* nodes of the beam are expanded.                                                    *)
C30_FailedReadSkipsNode ==
    sect.pc \in {"process", "reorder"} =>
        \A i \in sect.failed :
            /\ \A x \in 1 .. Len(sect.full_retset) :
                 sect.full_retset[x] # sect.frontier_nhoods[i].id
            /\ \A d \in 1 .. Len(sect.decoded) : sect.decoded[d].req # i

(* C26: in partition mode with recompute and dedup on, the distance pushed to         *)
(* full_retset for an expanded node equals the distance with which that node was      *)
(* inserted into the frontier, also for nodes whose neighbour-distance call fell back *)
(* to PQ after a remote failure.                                                      *)
C26_PushedDistanceIsFrontierDistance ==
    (ReadsMemo /\ pc \in {"loop", "hop", "post"}) =>
        \A i \in 1 .. Len(full_retset) : \A j \in 1 .. Len(retset) :
            (full_retset[i].id = retset[j].id /\ full_retset[i].id \notin index.cached)
                => full_retset[i].distance = retset[j].distance

Fetches(cs) == Cardinality({c \in 1 .. Len(cs) : cs[c].fetched})

(* C27: with batch_recompute and recompute on, at most one remote fetch is issued per *)
(* hop: the neighbour ids of all nodes expanded in the hop, cached or read from disk, *)
(* are fetched together at the end of the hop.  Stated for two successive steps of   *)
(* one hop: together they issue at most one fetch.                                    *)
C27_OneFetchPerHop ==
    [][(params.recompute /\ params.batch_recompute /\ pc = "hop")
           => Fetches(calls) + Fetches(calls') <= 1]_vars

Count(seq, x) == Cardinality({i \in 1 .. Len(seq) : seq[i] = x})

(* C28: with recompute on and global_pruning off, every expanded node (cache or disk) *)
(* with nnbrs > 10 neighbours is expanded with exactly max(10, floor(nnbrs * (1 -     *)
(* prune_ratio))) ids when that is less than nnbrs, those of smallest PQ distance;    *)
(* lists of at most 10 ids are never pruned, and nothing is pruned with recompute off. *)
C28_ExpansionUsesPrunedList ==
    prune.pc # "none" =>
        \A u \in 1 .. Len(prune.used) :
            LET given == prune.used[u].given
                used == prune.used[u].used
                n == Len(given)
                floor == (n * prune.keep_pct) \div 100
                target == IF floor > 10 THEN floor ELSE 10
            IN  prune.used[u].place \in {"cache", "disk"} =>
                    /\ (prune.recompute /\ ~prune.global_pruning /\ n > 10 /\ target < n) =>
                           /\ Len(used) = target
                           /\ \A x \in PruneIds : Count(used, x) <= Count(given, x)
                           /\ \A x, y \in PruneIds :
                                (Count(used, x) > 0 /\ Count(used, y) < Count(given, y))
                                    => prune.pq[x] <= prune.pq[y]
                    /\ (~prune.global_pruning /\ (n <= 10 \/ ~prune.recompute)) => used = given

Examined ==
    IF pc # "hop" THEN << >>
    ELSE IF cached_nhoods # << >> THEN Nbrs(Head(cached_nhoods))
    ELSE IF frontier_nhoods # << >>
    THEN (IF params.batch_recompute THEN << >>
          ELSE prune_node_nbrs(Nbrs(Head(frontier_nhoods))))
    ELSE IF params.batch_recompute THEN prune_node_nbrs(batched_node_ids)
    ELSE << >>

(* C35: in an unfiltered search no dummy is in the frontier, among the expanded nodes *)
(* or in the output; an examined neighbour, admitted or skipped as a dummy or for its *)
(* labels, is in visited afterwards; an id enters the frontier only if it was not in  *)
(* visited and passes the dummy and label test; a dummy id of full_retset is written  *)
(* to the output as its real id                                                       *)
C35_DummiesAndSkippedNeighbours ==
    /\ [](LET unfiltered ==
                 /\ (Ids(retset) \cup Ids(full_retset)) \cap dummy_pts = {}
                 /\ \A i \in 1 .. Len(frontier_nhoods) : frontier_nhoods[i] \notin dummy_pts
                 /\ \A i \in 1 .. Len(cached_nhoods) : cached_nhoods[i] \notin dummy_pts
                 /\ (out.written =>
                       \A i \in 1 .. params.k_search : out.indices[i] \notin dummy_pts)
               remapped ==
                 \A i \in BackedPositions :
                     out.indices[i] = IF full_retset[i].id \in dummy_pts
                                      THEN dummy_to_real_map[full_retset[i].id]
                                      ELSE full_retset[i].id
           IN  ((~params.use_filter) => unfiltered) /\ (Returned => remapped))
    /\ [][/\ \A m \in 1 .. Len(Examined) : Examined[m] \in visited'
           /\ \A id \in Ids(retset') \ Ids(retset) :
                 id \notin visited /\ id \in visited' /\ (pc = "hop" => Admitted(id))]_vars

(* an unfiltered search over an index with dummies that met the dummy as a neighbour  *)
(* and returned                                                                        *)
C35_Witness ==
    /\ Returned
    /\ ~params.use_filter
    /\ dummy_pts # {}
    /\ dummy_pts \subseteq visited

(* a filtered search that returned a dummy under its real id *)
C35_FilteredWitness ==
    /\ Returned
    /\ params.use_filter
    /\ \E i \in BackedPositions : full_retset[i].id \in dummy_pts

(* the count the vector holds for a node *)
CountOf(id) ==
    LET i == CHOOSE k \in 1 .. Len(warm.node_visit_counter) :
                 warm.node_visit_counter[k].first = id
    IN  warm.node_visit_counter[i].second

(* pops of a node whose increment is still to come *)
PendingCounts(id) ==
    Cardinality({t \in 1 .. NumThreads :
                    warm.threads[t].stage = "count" /\ Head(warm.threads[t].todo) = id})

(* C33: during the sample-query warmup no increment of a visit counter is lost: at   *)
(* every moment of the parallel loop the counter of a node plus the increments under *)
(* way equals the number of pops of that node, so when the counters are sorted each  *)
(* equals the pops of its node over all samples and threads; the returned list holds *)
(* min(num_nodes_to_cache, N) distinct nodes and no node left out has a higher       *)
(* counter than a listed one                                                          *)
C33_NoVisitLost ==
    /\ warm.pc = "sample" =>
          \A id \in Nodes : CountOf(id) + PendingCounts(id) = warm.popped[id]
    /\ LoopJoined => \A id \in Nodes : CountOf(id) = warm.popped[id]
    /\ (warm.pc = "returned" /\ warm.result = "ranked") =>
          LET listed == {warm.node_list[i] : i \in 1 .. Len(warm.node_list)}
          IN  /\ Len(warm.node_list) = warm.args.num_nodes_to_cache
              /\ Cardinality(listed) = Len(warm.node_list)
              /\ \A x \in listed, y \in Nodes \ listed : warm.popped[x] >= warm.popped[y]

(* two threads popped the same node and the ranked list was returned *)
C33_Witness ==
    /\ warm.pc = "returned"
    /\ warm.result = "ranked"
    /\ warm.popped[0] = 2
    /\ warm.node_list # << >>

(* C36: whenever generate_cache_list_from_sample_queries has returned - normally,    *)
(* early because num_nodes_to_cache >= N, or early because the sample file is        *)
(* missing - the counting flag is off and later searches leave the visit counters    *)
(* as they were at the return                                                         *)
C36_CountersFrozenAfterReturn ==
    warm.pc = "returned" =>
        /\ ~warm.count_visited_nodes
        /\ warm.node_visit_counter = warm.at_return

(* C34: a fetch creates and connects a socket only if the thread held none when it   *)
(* was called; a thread that returned from a failed connect, send or recv holds no   *)
(* socket and the socket it used is closed, and a fetch called with no socket held   *)
(* gets past the connect only with a socket it created; a thread that returned from  *)
(* a fetch whose send and recv succeeded holds the open socket it used, and the next *)
(* fetch sends on that same socket; no socket is used by a thread other than its     *)
(* creator                                                                            *)
C34_SocketPerThread ==
    zmq.pc = "threads" =>
        /\ \A t \in 1 .. NumThreads :
              LET th == zmq.threads[t]
              IN  /\ th.created => th.held = 0
                  /\ th.outcome \in {"connect failed", "send failed", "recv failed"} =>
                        /\ th.tl_socket = 0
                        /\ zmq.sockets[th.sock].closed
                  /\ (th.pc \in {"send", "recv"} /\ th.held = 0) => th.created
                  /\ th.outcome \in {"ok", "malformed reply"} =>
                        /\ th.tl_socket = th.sock
                        /\ ~zmq.sockets[th.sock].closed
                  /\ (th.pc \in {"send", "recv"} /\ th.held # 0) =>
                        (th.sock = th.held /\ th.tl_socket = th.held /\ ~th.created)
                  /\ th.tl_socket # 0 => zmq.sockets[th.tl_socket].owner = t
        /\ \A u \in zmq.used : zmq.sockets[u[1]].owner = u[2]

(* a thread whose first fetch failed at the send made a second socket for its next   *)
(* fetch, while the other thread reused its own                                       *)
C34_Witness ==
    /\ zmq.pc = "threads"
    /\ Len(zmq.sockets) = 3
    /\ \E t, u \in 1 .. NumThreads :
          /\ t # u
          /\ zmq.threads[t].fetches = 2 /\ zmq.threads[t].created
          /\ zmq.threads[t].outcome = "ok"
          /\ zmq.threads[u].fetches = 2 /\ ~zmq.threads[u].created
          /\ zmq.threads[u].outcome = "ok"

(* C37: every request is sent to the port the index had when the fetch was called,   *)
(* on whatever thread, also on a thread that fetched through another port before    *)
(* set_zmq_port                                                                       *)
C37_FetchUsesCurrentPort ==
    zmq.pc = "threads" => \A m \in zmq.sent : m.endpoint = m.zmq_port

C31_TrueMeansBuffersFilled ==
    sect.pc \in {"returned", "stored", "thrown"} =>
        /\ \A i \in 1 .. Len(sect.node_ids) :
              sect.retval[i] =>
                 /\ sect.coord_buffers[i] = DataOf(sect.node_ids[i])
                 /\ sect.nbr_buffers[i] \in {NullBuf, DataOf(sect.node_ids[i])}
        /\ \A e \in sect.stored :
              e.coords = DataOf(e.node) /\ e.nbrs \in {NullBuf, DataOf(e.node)}

(* the same for calls in default mode whose reads all filled their buffers *)
C31_DefaultModeReadsFilled ==
    (sect.pc \in {"returned", "stored", "thrown"} /\ ~sect.use_partition
        /\ \A i \in 1 .. Len(sect.node_ids) :
               sect.coord_buffers[i] # StaleBuf) =>
        C31_TrueMeansBuffersFilled

(* C38: whenever cached_beam_search has ended by raising an error (beam width too    *)
(* large, no medoid for the filter label, failed deferred fetch, reorder data asked  *)
(* for but absent), the caller's id and distance buffers are as they were handed in  *)
C38_ErrorLeavesOutputs ==
    pc = "error" => out = FreshOut(params.k_search)

(* a call that ran its whole traversal and was ended by the reorder block *)
C38_Witness ==
    /\ pc = "error"
    /\ params.use_reorder_data /\ ~index.reorder_data_exists
    /\ full_retset # << >>
    /\ ~out.written

====
